---- MODULE Spec2Model ----
(***************************************************************************)
(* Repository-modification pipeline of Deepak7704/test_swe.                *)
(*                                                                         *)
(* Text is modelled as a sequence of one-character strings, so that the    *)
(* string functions of the source (toLowerCase, replace, split, join,      *)
(* includes) are computed character by character.  The output of a shell   *)
(* command is modelled as the sequence of its lines (what split('\n')      *)
(* returns), each line a sequence of path segments.                        *)
(*                                                                         *)
(* Specifications:                                                         *)
(*   SpecDiscovery  the file-search graph analyze_task -> select_tool ->   *)
(*                  execute_search                                         *)
(*   SpecEngine     SandboxExecutor.executeFileOperation on its own        *)
(*   SpecApply      the completion handler of the chat route: file         *)
(*                  operations, shell commands, publish, response stream   *)
(*   SpecPublish    that handler from the shell commands on, over the      *)
(*                  request texts and repository URLs                      *)
(*   SpecGitHub     the methods of GitHubHelper against the hosting        *)
(*                  service; SpecGitHubLive adds the fairness of the       *)
(*                  polling loop                                           *)
(*   SpecRoute      chat requests in flight at the same time, up to the    *)
(*                  sandbox of the project                                 *)
(***************************************************************************)
EXTENDS Integers, Sequences, FiniteSets, TLC

VARIABLES
    \* ---- discovery graph (GraphState and the position in the graph)
    node,           \* the node of the graph that runs next
    userPrompt,     \* GraphState.userPrompt
    modelReply,     \* what generateText did in select_tool
    selectedTool,   \* GraphState.selectedTool
    searchQuery,    \* GraphState.searchQuery
    searchRun,      \* what sandbox.commands.run did in execute_search
    foundfiles,     \* GraphState.foundfiles
    \* ---- one chat request from the start of the generation stream on
    phase,          \* where the request is: the stream, then the steps of onFinish
    chunksLeft,     \* text chunks the generation stream has still to yield
    opIndex,        \* file operations applied so far (the loop counter i)
    opsLeft,        \* operations of the generation after the one that threw
    operation,      \* the operation executeFileOperation was called with last
    fsBefore,       \* the files as they were before that operation
    writes,         \* the sandbox.files.write calls that operation made
    fs,             \* the files of the working copy in the sandbox
    shellIndex,     \* shell commands run so far
    gitStep,        \* git steps of the publish sequence run so far
    cmdLog,         \* the shell, git and find commands onFinish ran, in order
    ignoredExit,    \* the first command that exited nonzero and was let pass, or ""
    thrown,         \* the error the body of onFinish threw, "" when none
    resLog,         \* what was written to the response, in order
    resEnded,       \* the response was ended
    generation,     \* the object onFinish was given: none yet, undefined, or a generation
    \* ---- what the publish step of that request works with and leaves
    repoUrl,        \* req.body.repoUrl, in segments
    userRequest,    \* req.body.userRequest
    forkOwner,      \* the owner of the fork the working copy was cloned from
    timestamp,      \* Date.now() at the start of the publish step, in digits
    pushed,         \* the branch git push sent to the fork, <<>> when none
    publishError,   \* the message of the error the publish step raised, "" when none
    \* ---- the hosting service and the GitHubHelper in front of it
    hosting,        \* the repositories of the hosting service
    pendingFork,    \* the fork the hosting service is still creating, or NoFork
    apiCalls,       \* the calls the running GitHubHelper method made, in order
    apiReplies,     \* how each of these calls ended
    waiting,        \* the fork waitForFork is polling for, or NoFork
    attempts,       \* the lookups waitForFork made
    slept,          \* the milliseconds waitForFork spent in setTimeout
    acquired,       \* how each fork acquisition so far ended
    pullCall,       \* the arguments of the last call of createPullRequest
    \* ---- the chat requests in flight and the SandboxManager
    requests,       \* each request: its body and how far the route is with it
    sandboxes,      \* SandboxManager.sandboxes: the sandbox of each project id, 0 for none
    environments,   \* the remote environments Sandbox.create made, in order
    timers,         \* the cleanup timers pending for each project id: when each fires
    gitInstalled,   \* SandboxExecutor.gitInstalled of the one executor of the process
    clock,          \* minutes since the process started
    \* ---- one call of selectFilesToModify
    candidateFiles, \* the parameter candidateFiles
    reads,          \* how the readFile of each candidate so far went
    fileContents,   \* the keys of the Map fileContents, in insertion order
    llmPrompt,      \* the files of filesSection in the prompt sent to the model
    llmText,        \* the text generateText returned
    selectedFiles,  \* what selectFilesToModify returned
    selectPc        \* where the call is

dvars == <<node, userPrompt, modelReply, selectedTool, searchQuery, searchRun, foundfiles>>

avars == <<phase, chunksLeft, opIndex, opsLeft, operation, fsBefore,
           writes, fs, shellIndex, gitStep, cmdLog, ignoredExit, thrown, resLog, resEnded,
           generation>>

pvars == <<repoUrl, userRequest, forkOwner, timestamp, pushed, publishError>>

hvars == <<pendingFork, waiting, attempts, slept, acquired, pullCall>>

gvars == <<hosting, apiCalls, apiReplies, hvars>>

svars == <<candidateFiles, reads, fileContents, llmPrompt, llmText, selectedFiles, selectPc>>

rvars == <<requests, sandboxes, environments, timers, gitInstalled, clock, svars>>

vars == <<dvars, avars, pvars, gvars, rvars>>

(***************************************************************************)
(* Bounds of the model                                                     *)
(***************************************************************************)
MaxWords == 2       \* words in a request text
MaxLines == 2       \* lines a search command prints
MaxOps == 3         \* file operations of a generation
MaxPairs == 2       \* search/replace pairs of an updateFile operation
MaxShell == 2       \* shell commands of a generation
MaxChunks == 1      \* text chunks of a generation stream
MaxAcquisitions == 2    \* fork acquisitions in a row
MaxRequests == 2    \* chat requests in flight

(***************************************************************************)
(* Generic sequence helpers                                                *)
(***************************************************************************)
RECURSIVE SeqsUpTo(_, _)
SeqsUpTo(S, n) ==
    IF n = 0 THEN {<<>>}
    ELSE LET shorter == SeqsUpTo(S, n - 1)
         IN  shorter \cup {Append(s, x) : s \in {t \in shorter : Len(t) = n - 1}, x \in S}

Undefined == "undefined"
NoQuery == <<Undefined>>     \* an undefined searchQuery (prints as "undefined")

(***************************************************************************)
(* Characters                                                              *)
(***************************************************************************)
UpperCase == <<"A","B","C","D","E","F","G","H","I","J","K","L","M",
               "N","O","P","Q","R","S","T","U","V","W","X","Y","Z">>
LowerCase == <<"a","b","c","d","e","f","g","h","i","j","k","l","m",
               "n","o","p","q","r","s","t","u","v","w","x","y","z">>
Digits == {"0","1","2","3","4","5","6","7","8","9"}

Range(f) == {f[i] : i \in DOMAIN f}

\* String.prototype.toLowerCase, one character
toLowerCase(c) ==
    IF c \in Range(UpperCase)
    THEN LowerCase[CHOOSE i \in DOMAIN UpperCase : UpperCase[i] = c]
    ELSE c

\* the regular-expression classes \w and \s
IsWordChar(c) == c \in Range(UpperCase) \cup Range(LowerCase) \cup Digits \cup {"_"}
IsSpace(c) == c \in {" ", "\t", "\n", "\r"}

(***************************************************************************)
(* SandboxExecutor.extractKeywords                                         *)
(***************************************************************************)
stopWords == << <<"t","h","e">>, <<"a">>, <<"a","n">>, <<"a","n","d">>, <<"o","r">>,
                <<"b","u","t">>, <<"i","n">>, <<"o","n">>, <<"a","t">>, <<"t","o">>,
                <<"f","o","r">>, <<"o","f">>, <<"w","i","t","h">>, <<"b","y">>,
                <<"f","r","o","m">> >>

\* .toLowerCase().replace(/[^\w\s]/g, ' ')
StripNonWord(text) ==
    [i \in DOMAIN text |->
        LET c == toLowerCase(text[i])
        IN  IF IsWordChar(c) \/ IsSpace(c) THEN c ELSE " "]

\* .split(/\s+/): the pieces between maximal runs of white space; a leading or
\* trailing run leaves an empty piece, and the empty text splits into one
\* empty piece.
RECURSIVE SplitFrom(_, _, _, _)
SplitFrom(text, i, piece, inRun) ==
    IF i > Len(text) THEN <<piece>>
    ELSE IF IsSpace(text[i])
         THEN IF inRun THEN SplitFrom(text, i + 1, piece, TRUE)
              ELSE <<piece>> \o SplitFrom(text, i + 1, <<>>, TRUE)
         ELSE SplitFrom(text, i + 1, Append(piece, text[i]), FALSE)

SplitWhitespace(text) == SplitFrom(text, 1, <<>>, FALSE)

\* .filter(word => word.length > 2 && !stopWords.includes(word))
KeepWord(word) == Len(word) > 2 /\ word \notin Range(stopWords)

\* a word list that keeps every occurrence
DedupeKeepsAll(words, seen) == words

\* [...new Set(words)]: the first occurrence of each word, in order
RECURSIVE Dedupe(_, _)
Dedupe(words, seen) ==
    IF words = <<>> THEN <<>>
    ELSE IF Head(words) \in seen THEN Dedupe(Tail(words), seen)
    ELSE <<Head(words)>> \o Dedupe(Tail(words), seen \cup {Head(words)})

extractKeywords(prompt) ==
    Dedupe(SelectSeq(SplitWhitespace(StripNonWord(prompt)), KeepWord), {})

\* Array.prototype.join
RECURSIVE join(_, _)
join(words, sep) ==
    IF words = <<>> THEN <<>>
    ELSE IF Len(words) = 1 THEN Head(words)
    ELSE Head(words) \o sep \o join(Tail(words), sep)

\* the separator '\\|' of the source: a backslash and a bar
Alternation == <<"\\", "|">>

(***************************************************************************)
(* Request texts: up to MaxWords words, separated by blanks or punctuation *)
(***************************************************************************)
PromptWords == { <<"T","h","e">>, <<"a","d","d">>, <<"A","d","d">>, <<"t","o">>,
                 <<"s","u","b","(",")">> }
PromptSeps == { <<" ">>, <<",", " ">> }

RECURSIVE PromptsOf(_)
PromptsOf(n) ==
    IF n = 0 THEN {<<>>}
    ELSE IF n = 1 THEN PromptWords
    ELSE {p \o s \o w : p \in PromptsOf(n - 1), s \in PromptSeps, w \in PromptWords}

Prompts == UNION {PromptsOf(n) : n \in 0..MaxWords}

(***************************************************************************)
(* The model's reply in select_tool.  response.text is a sequence of       *)
(* tokens: a code fence ```, a line break, a bare word, or one JSON value. *)
(***************************************************************************)
Fence == [t |-> "fence", tool |-> Undefined, query |-> NoQuery]
Newline == [t |-> "nl", tool |-> Undefined, query |-> NoQuery]
Word == [t |-> "word", tool |-> Undefined, query |-> NoQuery]     \* text that is no JSON
JsonNull == [t |-> "null", tool |-> Undefined, query |-> NoQuery] \* the JSON value null
JsonObject(tool, query) == [t |-> "object", tool |-> tool, query |-> query]

ReplyTools == {"grep", "glob", "regex", "find", Undefined}
ReplyQueries == {<<"a","d","d">>, NoQuery}

JsonBodies == {JsonObject(tl, q) : tl \in ReplyTools, q \in ReplyQueries} \cup {JsonNull}

ReplyTexts ==
    {<<b>> : b \in JsonBodies}
    \cup { <<Word>>, <<>>,
           <<JsonObject("regex", <<"a","d","d">>), Newline>>,
           <<Fence, Newline, JsonObject("glob", <<"a","d","d">>), Newline, Fence>>,
           <<Fence, Word, Newline, JsonObject("glob", <<"a","d","d">>), Newline, Fence>> }

\* generateText resolves with a text, or rejects
ModelReplies == {[kind |-> "text", text |-> t] : t \in ReplyTexts}
                \cup {[kind |-> "error", text |-> <<>>]}

\* String.prototype.trim on the token sequence
RECURSIVE TrimLeft(_)
TrimLeft(text) ==
    IF text # <<>> /\ Head(text).t = "nl" THEN TrimLeft(Tail(text)) ELSE text

RECURSIVE TrimRight(_)
TrimRight(text) ==
    IF text # <<>> /\ text[Len(text)].t = "nl"
    THEN TrimRight(SubSeq(text, 1, Len(text) - 1)) ELSE text

trim(text) == TrimRight(TrimLeft(text))

\* .replace(/```\n?/g, ''): every fence goes, with the line break right after it
RECURSIVE StripFences(_)
StripFences(text) ==
    IF text = <<>> THEN <<>>
    ELSE IF Head(text).t = "fence"
         THEN IF Len(text) >= 2 /\ text[2].t = "nl"
              THEN StripFences(Tail(Tail(text)))
              ELSE StripFences(Tail(text))
         ELSE <<Head(text)>> \o StripFences(Tail(text))

IsJsonToken(tok) == tok.t \in {"object", "null"}
IsNotNewline(tok) == tok.t # "nl"

\* JSON.parse: white space around one JSON value is allowed, anything else is a
\* SyntaxError
JSONparse(text) ==
    LET significant == SelectSeq(text, IsNotNewline)
    IN  IF Len(significant) = 1 /\ IsJsonToken(significant[1])
        THEN [ok |-> TRUE, value |-> significant[1]]
        ELSE [ok |-> FALSE, value |-> Word]

(***************************************************************************)
(* selectTool                                                              *)
(***************************************************************************)
\* a catch block that joined the keywords with a bare bar
FallbackSelectionBar(prompt) ==
    [selectedTool |-> "grep", searchQuery |-> join(extractKeywords(prompt), <<"|">>)]

\* the catch block: grep over the keywords of the request
FallbackSelection(prompt) ==
    [selectedTool |-> "grep", searchQuery |-> join(extractKeywords(prompt), Alternation)]

\* the try block; reading result.tool of null is a TypeError, caught like the
\* others
selectTool(prompt, reply) ==
    IF reply.kind = "error" THEN FallbackSelection(prompt)
    ELSE LET result == JSONparse(StripFences(trim(reply.text)))
         IN  IF ~result.ok THEN FallbackSelection(prompt)
             ELSE IF result.value.t = "null" THEN FallbackSelection(prompt)
             ELSE [selectedTool |-> result.value.tool, searchQuery |-> result.value.query]

(***************************************************************************)
(* executeSearch                                                           *)
(***************************************************************************)
repoDirectoryPath == "/home/user/project"

\* the switch over state.selectedTool; no case matches another value and
\* command stays undefined
SearchCommand(tool, query) ==
    CASE tool = "grep" ->
            [program |-> "grep -rl", query |-> query, dir |-> repoDirectoryPath,
             excluded |-> {"node_modules", ".git", "dist"}, orTrue |-> TRUE]
      [] tool = "glob" ->
            [program |-> "find", query |-> query, dir |-> repoDirectoryPath,
             excluded |-> {"node_modules", ".git"}, orTrue |-> FALSE]
      [] tool = "regex" ->
            [program |-> "grep -rlE", query |-> query, dir |-> repoDirectoryPath,
             excluded |-> {"node_modules", ".git"}, orTrue |-> TRUE]
      [] OTHER ->
            [program |-> Undefined, query |-> NoQuery, dir |-> Undefined,
             excluded |-> {}, orTrue |-> FALSE]

\* Lines a search prints
LineFile == <<"/home/user/project", "/", "src", "/", "math.ts">>
LineDependency == <<"/home/user/project", "/", "node_modules", "/", "lib.js">>
LineBlank == <<" ">>
StdoutLines == {LineFile, LineDependency, LineBlank}
Stdouts == SeqsUpTo(StdoutLines, MaxLines)

\* What the searching program does: it exits with a code after printing, or
\* the call into the remote environment throws (time-out, lost connection).
ProgramOutcomes ==
    {[kind |-> "returned", exitCode |-> e, stdout |-> out] : e \in {0, 1}, out \in Stdouts}
    \cup {[kind |-> "threw", exitCode |-> 0, stdout |-> <<>>]}

\* sandbox.commands.run(command): "|| true" turns every exit of the program
\* into exit 0; an undefined command is no program the shell can run.
CommandsRun(command, outcome) ==
    IF outcome.kind = "threw" THEN outcome
    ELSE IF command.program = Undefined
         THEN [kind |-> "returned", exitCode |-> 127, stdout |-> <<>>]
         ELSE [kind |-> "returned",
               exitCode |-> IF command.orTrue THEN 0 ELSE outcome.exitCode,
               stdout |-> outcome.stdout]

IsBlankLine(line) == \A i \in DOMAIN line : IsSpace(line[i])
includes(line, segment) == \E i \in DOMAIN line : line[i] = segment

KeepLine(line) == ~IsBlankLine(line) /\ ~includes(line, "node_modules")

\* result.stdout.split('\n').filter(trim() !== '').filter(!includes('node_modules'))
ParseFiles(stdout) == SelectSeq(stdout, KeepLine)

(***************************************************************************)
(* Search/replace pairs of updateFile.  A search text is read as a regular *)
(* expression over literal characters and groups ( ); a replace text may   *)
(* hold the replacement patterns $& and $$.                                *)
(***************************************************************************)
Searches == { <<"a">>, <<"b">>, <<"a","(">>, <<"(","a",")","b">> }
Replaces == { <<"b">>, <<"$","&","(">> }
Pairs == {[search |-> s, replace |-> r] : s \in Searches, r \in Replaces}

\* new RegExp(search, 'g') throws a SyntaxError on a group that is not closed
\* or not opened
RECURSIVE GroupsBalanced(_, _)
GroupsBalanced(search, depth) ==
    IF search = <<>> THEN depth = 0
    ELSE IF Head(search) = "(" THEN GroupsBalanced(Tail(search), depth + 1)
    ELSE IF Head(search) = ")" THEN depth > 0 /\ GroupsBalanced(Tail(search), depth - 1)
    ELSE GroupsBalanced(Tail(search), depth)

RegExpCompiles(search) == GroupsBalanced(search, 0)

IsNotGroupChar(c) == c \notin {"(", ")"}

\* the characters a compiled pattern matches, in order: groups match what
\* they enclose
PatternChars(search) == SelectSeq(search, IsNotGroupChar)

\* the text holds `chars` at position i
OccursAt(text, i, chars) ==
    /\ i + Len(chars) - 1 <= Len(text)
    /\ \A k \in 1..Len(chars) : text[i + k - 1] = chars[k]

\* content.match(regex) found at least one match
RegExpMatches(content, search) ==
    \E i \in 1..(Len(content) + 1) : OccursAt(content, i, PatternChars(search))

\* the replacement text of String.prototype.replace: $$ is a dollar sign, $& the
\* matched text
RECURSIVE ExpandReplacement(_, _)
ExpandReplacement(replace, matched) ==
    IF replace = <<>> THEN <<>>
    ELSE IF Head(replace) = "$" /\ Len(replace) >= 2 /\ replace[2] = "$"
         THEN <<"$">> \o ExpandReplacement(Tail(Tail(replace)), matched)
    ELSE IF Head(replace) = "$" /\ Len(replace) >= 2 /\ replace[2] = "&"
         THEN matched \o ExpandReplacement(Tail(Tail(replace)), matched)
    ELSE <<Head(replace)>> \o ExpandReplacement(Tail(replace), matched)

\* content.replace(regex, replace) with the g flag: the matches from left to
\* right, none overlapping; an empty match is followed by one copied character
RECURSIVE RegExpReplaceFrom(_, _, _, _)
RegExpReplaceFrom(content, i, chars, replace) ==
    IF i > Len(content)
    THEN IF chars = <<>> THEN ExpandReplacement(replace, <<>>) ELSE <<>>
    ELSE IF OccursAt(content, i, chars)
         THEN ExpandReplacement(replace, chars)
              \o (IF chars = <<>>
                  THEN <<content[i]>> \o RegExpReplaceFrom(content, i + 1, chars, replace)
                  ELSE RegExpReplaceFrom(content, i + Len(chars), chars, replace))
         ELSE <<content[i]>> \o RegExpReplaceFrom(content, i + 1, chars, replace)

RegExpReplace(content, search, replace) ==
    RegExpReplaceFrom(content, 1, PatternChars(search), replace)

\* content.includes(search)
includesText(content, search) ==
    \E i \in 1..(Len(content) + 1) : OccursAt(content, i, search)

\* content.split(search): the pieces between the occurrences of search, taken
\* from left to right; an empty search splits into single characters
RECURSIVE splitFrom(_, _, _, _)
splitFrom(content, i, search, piece) ==
    IF i > Len(content) THEN <<piece>>
    ELSE IF OccursAt(content, i, search)
         THEN <<piece>> \o splitFrom(content, i + Len(search), search, <<>>)
         ELSE splitFrom(content, i + 1, search, Append(piece, content[i]))

split(content, search) ==
    IF search = <<>> THEN [i \in 1..Len(content) |-> <<content[i]>>]
    ELSE splitFrom(content, 1, search, <<>>)

\* content.split(search).join(replace)
LiteralReplace(content, search, replace) == join(split(content, search), replace)

\* a pass without the literal search
ApplyPairNoFallback(content, pair) ==
    IF RegExpCompiles(pair.search) /\ RegExpMatches(content, pair.search)
    THEN [content |-> RegExpReplace(content, pair.search, pair.replace), modified |-> TRUE]
    ELSE [content |-> content, modified |-> FALSE]

\* a pass that empties the buffer when the pair is not found
ApplyPairMissClears(content, pair) ==
    IF RegExpCompiles(pair.search) /\ RegExpMatches(content, pair.search)
    THEN [content |-> RegExpReplace(content, pair.search, pair.replace), modified |-> TRUE]
    ELSE IF includesText(content, pair.search)
         THEN [content |-> LiteralReplace(content, pair.search, pair.replace),
               modified |-> TRUE]
         ELSE [content |-> <<>>, modified |-> FALSE]

\* One pass of the loop over operation.searchReplace: the regular expression
\* first, the literal text when it has no match or does not compile, and no
\* change when the literal text is absent too.
ApplyPair(content, pair) ==
    IF RegExpCompiles(pair.search)
    THEN IF RegExpMatches(content, pair.search)
         THEN [content |-> RegExpReplace(content, pair.search, pair.replace),
               modified |-> TRUE]
         ELSE IF includesText(content, pair.search)
              THEN [content |-> LiteralReplace(content, pair.search, pair.replace),
                    modified |-> TRUE]
              ELSE [content |-> content, modified |-> FALSE]
    ELSE IF includesText(content, pair.search)
         THEN [content |-> LiteralReplace(content, pair.search, pair.replace),
               modified |-> TRUE]
         ELSE [content |-> content, modified |-> FALSE]

\* every pair applied to the content the file was read with, the last one kept
ApplyPairsOnOriginal(content, searchReplace, modificationsMade) ==
    IF searchReplace = <<>>
    THEN [content |-> content, modified |-> modificationsMade]
    ELSE [content |-> ApplyPair(content, searchReplace[Len(searchReplace)]).content,
          modified |-> \/ modificationsMade
                       \/ \E i \in DOMAIN searchReplace :
                            ApplyPair(content, searchReplace[i]).modified]

\* the loop over operation.searchReplace: `content` is one buffer, each pair
\* works on what the pair before it left
RECURSIVE ApplyPairs(_, _, _)
ApplyPairs(content, searchReplace, modificationsMade) ==
    IF searchReplace = <<>>
    THEN [content |-> content, modified |-> modificationsMade]
    ELSE LET step == ApplyPair(content, Head(searchReplace))
         IN  ApplyPairs(step.content, Tail(searchReplace),
                        modificationsMade \/ step.modified)

(***************************************************************************)
(* File operations of a generation and the files of the working copy       *)
(***************************************************************************)
\* targetDir of cloneRepository: /home/user/project
repoPath == <<"/","h","o","m","e","/","u","s","e","r","/","p","r","o","j","e","c","t">>

MathTs == <<"m","a","t","h",".","t","s">>
NewTs == <<"n","e","w",".","t","s">>

\* operation.path as the generation gives it
OpPaths == { MathTs, repoPath \o <<"/">> \o MathTs, NewTs }

\* String.prototype.startsWith: the first characters of path are prefix
startsWith(path, prefix) ==
    Len(path) >= Len(prefix) /\ SubSeq(path, 1, Len(prefix)) = prefix

\* operation.path.startsWith(repoPath) ? operation.path : `${repoPath}/${operation.path}`
fullPath(path) == IF startsWith(path, repoPath) THEN path ELSE repoPath \o <<"/">> \o path

Files == {fullPath(path) : path \in OpPaths}

\* Paths a generation can contain besides those of OpPaths: an absolute path
\* outside the root, one that shares only a string prefix with the root, and
\* a relative one that climbs out of the root
OutsidePath == <<"/","e","t","c","/","h","o","s","t","s">>
SiblingPath == <<"/","h","o","m","e","/","u","s","e","r","/","p","r","o","j","e","c","t","-","o","l","d","/","a">>
ClimbingPath == <<".",".","/","a">>
GenerationPaths == OpPaths \cup {OutsidePath, SiblingPath, ClimbingPath}

\* The location a path denotes: its segments with "" and "." dropped and ".."
\* taking the segment before it away (at the top, ".." stays at the top)
RECURSIVE Normalize(_, _)
Normalize(segments, stack) ==
    IF segments = <<>> THEN stack
    ELSE IF Head(segments) \in {<<>>, <<".">>} THEN Normalize(Tail(segments), stack)
    ELSE IF Head(segments) = <<".", ".">>
         THEN Normalize(Tail(segments),
                        IF stack = <<>> THEN stack ELSE SubSeq(stack, 1, Len(stack) - 1))
         ELSE Normalize(Tail(segments), Append(stack, Head(segments)))

LocationOf(path) == Normalize(split(path, <<"/">>), <<>>)

\* path is absolute and denotes the root or a location below it
InsideRoot(path) ==
    /\ path # <<>> /\ path[1] = "/"
    /\ \E location \in {LocationOf(path)}, root \in {LocationOf(repoPath)} :
          /\ Len(location) >= Len(root)
          /\ SubSeq(location, 1, Len(root)) = root

\* the files the operations of a generation can reach
GenerationFiles == {fullPath(path) : path \in GenerationPaths}

Absent == [exists |-> FALSE, content |-> <<>>]
Stored(content) == [exists |-> TRUE, content |-> content]

InitialContents == { <<"a","(","a">>, <<"(","a",")","b">> }
NewContents == { <<"a","b">>, <<>> }

\* the working copy after the clone: math.ts is there, new.ts is not
InitialFiles ==
    {[f \in Files |-> IF f = fullPath(MathTs) THEN Stored(c) ELSE Absent]
        : c \in InitialContents}

NoOperation == [type |-> "none", path |-> <<>>, content |-> <<>>, searchReplace |-> <<>>]

\* FileOperationSchema: the operations at given paths over given contents and pairs
OperationsAt(paths, contents, pairs) ==
    {[type |-> t, path |-> path, content |-> c, searchReplace |-> <<>>]
        : t \in {"createFile", "rewriteFile"}, path \in paths, c \in contents}
    \cup {[type |-> "updateFile", path |-> path, content |-> <<>>, searchReplace |-> sr]
        : path \in paths, sr \in SeqsUpTo(pairs, MaxPairs)}
    \cup {[type |-> "deleteFile", path |-> path, content |-> <<>>, searchReplace |-> <<>>]
        : path \in paths}

OperationsOver(contents, pairs) == OperationsAt(OpPaths, contents, pairs)

\* the operations executeFileOperation is looked at with
FileOperations == OperationsOver(NewContents, Pairs)

\* the same operation with the path chat.ts hands to executeFileOperation
Resolved(op) == [op EXCEPT !.path = fullPath(op.path)]

\* the operations a generation of a chat request is drawn from
RequestPairs == {p \in Pairs : p.search \in {<<"b">>, <<"a","(">>} /\ p.replace = <<"b">>}
RequestOperations == OperationsOver({<<"a","b">>}, RequestPairs)

\* a write that appended to what the file held
WrittenAppended(old, content) == Stored(old.content \o content)

\* sandbox.files.write(path, content) replaces what the file held
Written(old, content) == Stored(content)

\* the sandbox.files.write calls of writeFile, one after the other
RECURSIVE FilesAfterWrites(_, _)
FilesAfterWrites(files, calls) ==
    IF calls = <<>> THEN files
    ELSE FilesAfterWrites(
            [files EXCEPT ![Head(calls).path] = Written(@, Head(calls).content)],
            Tail(calls))

\* The call into the sandbox that fails while an operation is executed, if
\* one does: the read of the file, a command (mkdir -p, rm -f) or the write.
IoFailures == {"none", "read", "command", "write"}

\* what executeFileOperation throws
FileOperationErrors == {"file not found", "read failed", "command failed", "write failed"}

\* writeFile: mkdir -p of the directory, then sandbox.files.write; a call that
\* throws changes nothing and ends writeFile
writeFile(files, calls, fails) ==
    IF fails = "command"
    THEN [files |-> files, writes |-> <<>>, error |-> "command failed"]
    ELSE IF fails = "write"
    THEN [files |-> files, writes |-> calls, error |-> "write failed"]
    ELSE [files |-> FilesAfterWrites(files, calls), writes |-> calls, error |-> ""]

\* a write-back that is skipped when no pair matched
WriteBackIfModified(path, content, modificationsMade) ==
    IF modificationsMade THEN <<[path |-> path, content |-> content]>> ELSE <<>>

\* the end of the updateFile case: the buffer is written back, modified or not
WriteBack(path, content, modificationsMade) == <<[path |-> path, content |-> content]>>

\* SandboxExecutor.executeFileOperation, called with the resolved path.  The
\* result: the files afterwards, the write calls made, and the error thrown
\* ("" when it returns).  readFile rejects for a file that does not exist.
executeFileOperation(files, op, fails) ==
    CASE op.type \in {"createFile", "rewriteFile"} ->
            writeFile(files, <<[path |-> op.path, content |-> op.content]>>, fails)
      [] op.type = "updateFile" ->
            IF ~files[op.path].exists
            THEN [files |-> files, writes |-> <<>>, error |-> "file not found"]
            ELSE IF fails = "read"
            THEN [files |-> files, writes |-> <<>>, error |-> "read failed"]
            ELSE LET result == ApplyPairs(files[op.path].content, op.searchReplace, FALSE)
                 IN  writeFile(files, WriteBack(op.path, result.content, result.modified), fails)
      [] op.type = "deleteFile" ->
            IF fails = "command"
            THEN [files |-> files, writes |-> <<>>, error |-> "command failed"]
            ELSE [files |-> [files EXCEPT ![op.path] = Absent], writes |-> <<>>, error |-> ""]

(***************************************************************************)
(* Commands onFinish runs in the sandbox, and the response                 *)
(***************************************************************************)
\* sandbox.commands.run returns an exit code or throws
CommandOutcomes == { [threw |-> FALSE, exitCode |-> 0],
                     [threw |-> FALSE, exitCode |-> 1],
                     [threw |-> TRUE, exitCode |-> 0] }

\* the git sequence of the publish step; checked: the exit code is tested
\* and, when it is not 0, an error with this message and the stderr is thrown
GitSequence ==
    << [cmd |-> "git config user.email", checked |-> FALSE, failure |-> ""],
       [cmd |-> "git config user.name", checked |-> FALSE, failure |-> ""],
       [cmd |-> "git checkout -b", checked |-> TRUE,
        failure |-> "Failed to create branch: stderr"],
       [cmd |-> "git add .", checked |-> FALSE, failure |-> ""],
       [cmd |-> "git commit -m", checked |-> TRUE, failure |-> "Failed to commit: stderr"],
       [cmd |-> "git rev-parse HEAD", checked |-> FALSE, failure |-> ""],
       [cmd |-> "git push", checked |-> TRUE, failure |-> "Failed to push: stderr"] >>

\* the message of the error sandbox.commands.run rejects with
CommandRejected == "command rejected"

\* a publish step that tests no exit code
GitStepErrorUntested(step, outcome) ==
    IF outcome.threw THEN CommandRejected ELSE ""

\* what one git step raises: the rejection of the call, or the error thrown on a
\* tested exit code that is not 0; "" when the step raises nothing
GitStepError(step, outcome) ==
    IF outcome.threw THEN CommandRejected
    ELSE IF step.checked /\ outcome.exitCode # 0 THEN step.failure
    ELSE ""

\* What git writes to stderr is git's choice.  The push command carries
\* authenticatedForkUrl, https://${githubToken}@github.com/..., on its command
\* line, and a git program may quote the URL it was given in its message.
PlainStderr == "stderr"
StderrQuotingUrl == "fatal: unable to access 'https://<githubToken>@github.com/dev/widget.git/'"
Stderrs(step, outcome) ==
    IF step.cmd = "git push" /\ ~outcome.threw /\ outcome.exitCode # 0
    THEN {PlainStderr, StderrQuotingUrl}
    ELSE {PlainStderr}

\* `Failed to push: ${pushResult.stderr}` with the stderr that quotes the URL
PushFailedQuotingUrl ==
    "Failed to push: fatal: unable to access 'https://<githubToken>@github.com/dev/widget.git/'"

\* the error of a git step, with the stderr the command printed
GitStepErrorWith(step, outcome, stderr) ==
    IF GitStepError(step, outcome) = "Failed to push: stderr" /\ stderr = StderrQuotingUrl
    THEN PushFailedQuotingUrl
    ELSE GitStepError(step, outcome)

\* the first nonzero exit code that nothing tested
FirstIgnored(ignored, cmd, outcome) ==
    IF ignored = "" /\ ~outcome.threw /\ outcome.exitCode # 0 THEN cmd ELSE ignored

Chunk == [type |-> "chunk", error |-> ""]
PrCreated == [type |-> "__PR_CREATED__", error |-> ""]
PrFailed(message) == [type |-> "__PR_FAILED__", error |-> message]
Status500(message) == [type |-> "status500", error |-> message]

(***************************************************************************)
(* The publish step: branch name and pull request                          *)
(***************************************************************************)
Min(a, b) == IF a < b THEN a ELSE b

\* String.prototype.toLowerCase
toLowerCaseText(text) == [i \in DOMAIN text |-> toLowerCase(text[i])]

\* the class [a-z0-9]
IsAlnum(c) == c \in Range(LowerCase) \cup Digits

\* .replace(/[^a-z0-9]+/g, '-'): every maximal run of other characters becomes
\* one '-'
RECURSIVE CollapseFrom(_, _, _)
CollapseFrom(text, i, inRun) ==
    IF i > Len(text) THEN <<>>
    ELSE IF IsAlnum(text[i]) THEN <<text[i]>> \o CollapseFrom(text, i + 1, FALSE)
    ELSE IF inRun THEN CollapseFrom(text, i + 1, TRUE)
    ELSE <<"-">> \o CollapseFrom(text, i + 1, TRUE)

CollapseNonAlnum(text) == CollapseFrom(text, 1, FALSE)

\* String.prototype.substring(from, to), 0 <= from <= to
substring(text, from, to) == SubSeq(text, from + 1, Min(to, Len(text)))

SlugLength == 30

\* a slug that is cut to length before the runs are collapsed
sanitizedRequestCutFirst(request) ==
    CollapseNonAlnum(substring(toLowerCaseText(request), 0, SlugLength))

\* userRequest.toLowerCase().replace(/[^a-z0-9]+/g, '-').substring(0, 30)
sanitizedRequest(request) ==
    substring(CollapseNonAlnum(toLowerCaseText(request)), 0, SlugLength)

BranchPrefix == <<"a","i","-","b","o","t","/">>

\* a branch name of prefix and time stamp only
branchNameWithoutSlug(stamp, request) == BranchPrefix \o stamp

\* `ai-bot/${timestamp}-${sanitizedRequest}`
branchName(stamp, request) == BranchPrefix \o stamp \o <<"-">> \o sanitizedRequest(request)

\* req.body.userRequest of the modelled requests
SubtractRequest ==
    <<"a","d","d"," ","a"," ","s","u","b","t","r","a","c","t"," ","f","u",
      "n","c","t","i","o","n"," ","t","o"," ","m","a","t","h",".","t","s">>
CommaRequest ==
    <<"a","d","d"," ","a"," ","s","u","b","t","r","a","c","t"," ","f","u",
      "n","c","t","i","o","n",","," ","t","o"," ","m","a","t","h",".","t",
      "s">>
ShortRequest ==
    <<"F","i","x",":"," ","t","h","e"," ","R","E","A","D","M","E","!","!">>
LongRunRequest ==
    <<"r","e","n","a","m","e"," ","a","d","d","_","n","u","m","b","e","r",
      "s"," ","i","n"," ","s","r","c","/","u","t","i","l","s"," ","-",">",
      " ","s","u","m">>
UserRequests == {SubtractRequest, CommaRequest, ShortRequest, LongRunRequest}

\* Date.now(), in decimal digits
Timestamps == { <<"1","7">>, <<"4","2">> }
NoTimestamp == <<>>

(***************************************************************************)
(* GitHubHelper and the hosting service behind it                          *)
(***************************************************************************)
Acme == <<"a","c","m","e">>
Widget == <<"w","i","d","g","e","t">>
Dev == <<"d","e","v">>          \* the login of the token's user
Main == <<"m","a","i","n">>
Develop == <<"d","e","v","e","l","o","p">>
Branches == {Main, Develop}

GitHubCom == <<"g","i","t","h","u","b",".","c","o","m">>

\* `${owner}/${repo}`
FullName(owner, repo) == owner \o <<"/">> \o repo

\* a repository as repos.get returns it; parent is a full name, <<>> when none
Repository(isFork, parent, defaultBranch) ==
    [exists |-> TRUE, fork |-> isFork, parent |-> parent, default_branch |-> defaultBranch]
NoRepository == [exists |-> FALSE, fork |-> FALSE, parent |-> <<>>, default_branch |-> <<>>]

\* one call to the hosting API
ApiCall(api, owner, repo, head, base) ==
    [api |-> api, owner |-> owner, repo |-> repo, head |-> head, base |-> base]
ReposGet(owner, repo) == ApiCall("repos.get", owner, repo, <<>>, <<>>)
CreateFork(owner, repo) == ApiCall("repos.createFork", owner, repo, <<>>, <<>>)
PullsCreate(owner, repo, head, base) == ApiCall("pulls.create", owner, repo, head, base)

\* an argument that was not passed
NotPassed == <<Undefined>>

\* a string is falsy in JavaScript when it is undefined or empty
IsTruthy(text) == text # NotPassed /\ text # <<>>

\* baseBranch || await this.getDefaultBranch(...): the right side is evaluated
\* when baseBranch is falsy
NeedsDefaultBranch(baseBranch) == ~IsTruthy(baseBranch)

\* a pull request opened against the fork
PullTargetFork(originalOwner, originalRepo, fOwner) == [owner |-> fOwner, repo |-> originalRepo]

\* owner and repo of pulls.create
PullTarget(originalOwner, originalRepo, fOwner) ==
    [owner |-> originalOwner, repo |-> originalRepo]

\* GitHubHelper.createPullRequest; getOk and createOk: the API call resolves.
\* Returns the calls made and the message of the error thrown, "" when none.
createPullRequest(repos, originalOwner, originalRepo, fOwner, branch, baseBranch, getOk, createOk) ==
    LET lookup == NeedsDefaultBranch(baseBranch)
        get == ReposGet(originalOwner, originalRepo)
        base == IF lookup THEN repos[<<originalOwner, originalRepo>>].default_branch
                ELSE baseBranch
        target == PullTarget(originalOwner, originalRepo, fOwner)
        create == PullsCreate(target.owner, target.repo, fOwner \o <<":">> \o branch, base)
    IN  IF lookup /\ ~(getOk /\ repos[<<originalOwner, originalRepo>>].exists)
        THEN [calls |-> <<get>>, replies |-> <<"rejected">>,
              error |-> "repos.get rejected"]
        ELSE [calls |-> (IF lookup THEN <<get>> ELSE <<>>) \o <<create>>,
              replies |-> (IF lookup THEN <<"resolved">> ELSE <<>>)
                            \o <<IF createOk THEN "resolved" ELSE "rejected">>,
              error |-> IF createOk THEN "" ELSE "pulls.create rejected"]

\* GitHubHelper.parseGitHubUrl: the first match of
\* /github\.com[\/:]([^\/]+)\/([^\/\.]+)/ in the URL
RECURSIVE RunWhile(_, _, _)
RunWhile(text, i, stop) ==
    IF i > Len(text) \/ text[i] \in stop THEN <<>>
    ELSE <<text[i]>> \o RunWhile(text, i + 1, stop)

MatchAt(url, i) ==
    IF ~OccursAt(url, i, GitHubCom)
    THEN [matched |-> FALSE, owner |-> <<>>, repo |-> <<>>]
    ELSE LET sep == i + Len(GitHubCom)
             owner == RunWhile(url, sep + 1, {"/"})
             slash == sep + 1 + Len(owner)
             repo == RunWhile(url, slash + 1, {"/", "."})
         IN  [matched |-> /\ sep <= Len(url) /\ url[sep] \in {"/", ":"}
                          /\ owner # <<>>
                          /\ slash <= Len(url) /\ url[slash] = "/"
                          /\ repo # <<>>,
              owner |-> owner, repo |-> repo]

InvalidUrl == [valid |-> FALSE, owner |-> <<>>, repo |-> <<>>]

parseGitHubUrl(url) ==
    LET starts == {i \in 1..Len(url) : MatchAt(url, i).matched}
    IN  IF starts = {} THEN InvalidUrl
        ELSE LET first == CHOOSE i \in starts : \A j \in starts : i <= j
             IN  [valid |-> TRUE, owner |-> MatchAt(url, first).owner,
                  repo |-> MatchAt(url, first).repo]

HttpsUrl == <<"h","t","t","p","s",":","/","/","g","i","t","h","u","b",".","c","o",
      "m","/","a","c","m","e","/","w","i","d","g","e","t">>
GitSuffixUrl == <<"h","t","t","p","s",":","/","/","g","i","t","h","u","b",".","c","o",
      "m","/","a","c","m","e","/","w","i","d","g","e","t",".","g","i","t">>
SshUrl == <<"g","i","t","@","g","i","t","h","u","b",".","c","o","m",":","a","c",
      "m","e","/","w","i","d","g","e","t",".","g","i","t">>
RepoUrls == {HttpsUrl, GitSuffixUrl, SshUrl}

\* the name the hosting service gives a fork when the user has another
\* repository of the upstream's name
ForkNameTaken(repo) == repo \o <<"-", "1">>

\* the upstream repository and the user's repositories of its name and of the
\* name a fork gets when that one is taken
HostingWith(upstreamDefault, sameName, otherName) ==
    (<<Acme, Widget>> :> Repository(FALSE, <<>>, upstreamDefault)) @@
    (<<Dev, Widget>> :> sameName) @@
    (<<Dev, ForkNameTaken(Widget)>> :> otherName)

ReadyFork == Repository(TRUE, FullName(Acme, Widget), Main)
UnrelatedRepository == Repository(FALSE, <<>>, Main)
NoFork == <<>>
NoPullCall == [called |-> FALSE, baseBranch |-> NotPassed, branch |-> <<>>, error |-> ""]

\* https://github.com/<owner>/<repo>.git
CloneUrl(owner, repo) ==
    <<"h","t","t","p","s",":","/","/">> \o GitHubCom \o <<"/">> \o FullName(owner, repo)
        \o <<".","g","i","t">>

UsersGetAuthenticated == ApiCall("users.getAuthenticated", <<>>, <<>>, <<>>, <<>>)

\* how repos.get can end for a repository: it is there or it is not (404), and
\* any call can fail otherwise
ReposGetReplies(repos, key) ==
    IF repos[key].exists THEN {"resolved", "rejected"} ELSE {"not found", "rejected"}

\* { exists: false, cloneUrl: null, forkOwner: null }
NotAFork == [exists |-> FALSE, cloneUrl |-> <<>>, forkOwner |-> <<>>]

\* a getFork that never finds a fork
getForkBlind(repos, login, owner, repo, userReply, getReply) ==
    [info |-> NotAFork, error |-> "",
     calls |-> <<UsersGetAuthenticated, ReposGet(login, repo)>>,
     replies |-> <<userReply, getReply>>]

\* GitHubHelper.getFork(owner, repo) for the user `login`; userReply and getReply:
\* how users.getAuthenticated and repos.get ended
getFork(repos, login, owner, repo, userReply, getReply) ==
    LET fork == repos[<<login, repo>>]
        both == <<UsersGetAuthenticated, ReposGet(login, repo)>>
    IN  IF userReply # "resolved"
        THEN [info |-> NotAFork, error |-> "users.getAuthenticated rejected",
              calls |-> <<UsersGetAuthenticated>>, replies |-> <<userReply>>]
        ELSE IF getReply = "rejected"
        THEN [info |-> NotAFork, error |-> "repos.get rejected",
              calls |-> both, replies |-> <<userReply, getReply>>]
        ELSE IF getReply = "resolved" /\ fork.fork /\ fork.parent = FullName(owner, repo)
        THEN [info |-> [exists |-> TRUE, cloneUrl |-> CloneUrl(login, repo),
                        forkOwner |-> login],
              error |-> "", calls |-> both, replies |-> <<userReply, getReply>>]
        ELSE [info |-> NotAFork, error |-> "",
              calls |-> both, replies |-> <<userReply, getReply>>]

\* the repository repos.createFork answers with: the fork the user has or is
\* getting, else a new one
createForkTarget(repos, pending, login, owner, repo) ==
    LET forks == {k \in DOMAIN repos : /\ k[1] = login
                                        /\ repos[k].exists /\ repos[k].fork
                                        /\ repos[k].parent = FullName(owner, repo)}
    IN  IF forks # {} THEN CHOOSE k \in forks : TRUE
        ELSE IF pending # NoFork THEN pending
        ELSE IF repos[<<login, repo>>].exists THEN <<login, ForkNameTaken(repo)>>
        ELSE <<login, repo>>

maxAttempts == 10
WaitMs == 2000

\* a loop that goes round once more
MoreAttemptsInclusive(i) == i <= maxAttempts

\* the loop condition of waitForFork
MoreAttempts(i) == i < maxAttempts

\* how a fork acquisition ended: what it returned or the error it threw, and
\* whether it called repos.createFork
Acquired(cloneUrl, owner, forked) ==
    [cloneUrl |-> cloneUrl, forkOwner |-> owner, error |-> "", forked |-> forked]
AcquireFailed(error, forked) ==
    [cloneUrl |-> <<>>, forkOwner |-> <<>>, error |-> error, forked |-> forked]

\* a catch that only logs the error
PublishCatchSilent(files, log, error) == [files |-> files, log |-> log]

\* a catch that also throws the working copy away
PublishCatchResets(files, log, error) ==
    [files |-> [f \in DOMAIN files |-> Absent], log |-> Append(log, PrFailed(error))]

\* the catch around the publish step: it writes the failure marker with the
\* message of the error, and calls nothing in the sandbox
PublishCatch(files, log, error) == [files |-> files, log |-> Append(log, PrFailed(error))]

\* a catch that logged the error and let the loop go on
PhaseAfterThrowContinues == "fileOps"

\* the catch around the body of onFinish logs and throws the error again
PhaseAfterThrow == "raised"

(***************************************************************************)
(* The graph START -> analyze_task -> select_tool -> execute_search -> END *)
(***************************************************************************)
\* No request is under way: the values of the request's variables while the
\* discovery graph is looked at on its own.
(***************************************************************************)
(* The chat route up to the working copy, and SandboxManager               *)
(***************************************************************************)
Requests == 1..MaxRequests

\* a project id the client sends, and the one uuidv4() makes for a request
ClientProject == <<"project", 0>>
Uuid(r) == <<"uuid", r>>
ProjectIds == {ClientProject} \cup {Uuid(r) : r \in Requests}

\* req.body
Body(url, request, project) == [repoUrl |-> url, userRequest |-> request, projectId |-> project]
Bodies ==
    { Body(HttpsUrl, ShortRequest, ClientProject),
      Body(HttpsUrl, ShortRequest, NotPassed),
      Body(NotPassed, ShortRequest, ClientProject),
      Body(HttpsUrl, NotPassed, ClientProject),
      Body(HttpsUrl, <<>>, NotPassed) }

\* a validation that looks at the repository URL only
validateRepoUrlOnly(body) ==
    IF ~IsTruthy(body.repoUrl) THEN "Repository URL is required" ELSE ""

\* if (!repoUrl) ... if (!userRequest) ...: the message of the 400, "" when
\* the body passes
validate(body) ==
    IF ~IsTruthy(body.repoUrl) THEN "Repository URL is required"
    ELSE IF ~IsTruthy(body.userRequest) THEN "User request is required"
    ELSE ""

\* existingProjectId || uuidv4()
projectIdOf(body, r) == IF IsTruthy(body.projectId) THEN body.projectId ELSE Uuid(r)

\* a request as it arrives
Received(body) ==
    [body |-> body, pc |-> "received", projectId |-> NotPassed, sandbox |-> 0,
     status |-> 0, error |-> "", calledApi |-> FALSE]

\* res.status(code).json({ error })
Answered(request, code, message) ==
    [request EXCEPT !.pc = "answered", !.status = code, !.error = message]

(***************************************************************************)
(* selectFilesToModify                                                     *)
(***************************************************************************)
MaxCandidates == 2      \* candidate files of a call
MaxResponseLines == 2   \* lines of the model's response

\* the candidate files, by name
CandidatePaths == {"helper.py", "main.py"}

NotCalled == <<"not called">>
NoText == <<"no text">>
Rejected == <<"rejected">>

\* no call of selectFilesToModify is under way
SelectIdle ==
    /\ candidateFiles = <<>>
    /\ reads = <<>>
    /\ fileContents = <<>>
    /\ llmPrompt = NotCalled
    /\ llmText = NoText
    /\ selectedFiles = <<>>
    /\ selectPc = "idle"

\* Map.prototype.set: a new key goes to the end, a known key keeps its place
MapSet(keys, key) == IF \E i \in DOMAIN keys : keys[i] = key THEN keys ELSE Append(keys, key)

\* a read failure that leaves the function
AfterReadFailureRaises == "raised"

\* the catch in the loop logs the failure, and the loop goes on
AfterReadFailure == "reading"

\* lines a response of the model is made of: a path in the working copy with
\* blanks around it, a path outside it, a relative path, a blank line
LineInRoot == <<" "," ","/","h","o","m","e","/","u","s","e","r","/","p","r","o","j","e","c","t","/","m","a","i","n",".","p","y"," ">>
LineOutsideRoot == <<"/","e","t","c","/","h","o","s","t","s">>
LineRelative == <<"s","r","c","/","m","a","i","n",".","p","y">>
LineOfBlanks == <<" ", " ">>
ResponseLines == {LineInRoot, LineOutsideRoot, LineRelative, LineOfBlanks}
LineBreak == <<"\n">>
Responses == {join(lines, LineBreak) : lines \in SeqsUpTo(ResponseLines, MaxResponseLines)}

\* String.prototype.trim on characters
RECURSIVE trimStart(_)
trimStart(text) == IF text # <<>> /\ IsSpace(Head(text)) THEN trimStart(Tail(text)) ELSE text

RECURSIVE trimEnd(_)
trimEnd(text) ==
    IF text # <<>> /\ IsSpace(text[Len(text)])
    THEN trimEnd(SubSeq(text, 1, Len(text) - 1)) ELSE text

trimText(text) == trimEnd(trimStart(text))

\* line.length > 0 && line.startsWith('/')
IsSelectedLine(line) == Len(line) > 0 /\ startsWith(line, <<"/">>)

\* text.trim().split('\n').map(line => line.trim()).filter(...)
ParseSelection(text) ==
    LET lines == split(trimText(text), LineBreak)
    IN  SelectSeq([i \in DOMAIN lines |-> trimText(lines[i])], IsSelectedLine)

\* TIMEOUT = 30 * 60 * 1000 ms, in minutes
TIMEOUT == 30

\* the instants at which something happens, in minutes
Instants == {0, 15, 30}

\* the commands cloneRepository and ensureGitInstalled run in a sandbox
GitVersionCommand == "git --version"
InstallCommand == "install git"
RemoveCommand == "rm -rf /home/user/project"
CloneCommand == "git clone"

\* a remote environment as Sandbox.create returns it
Environment(project, hasGit) ==
    [project |-> project, alive |-> TRUE, hasGit |-> hasGit, commands |-> <<>>,
     lastUsed |-> clock, expires |-> clock + TIMEOUT, killing |-> FALSE,
     workingCopy |-> "none"]

\* the environments after a request has used sandbox h and run cmds in it
Used(envs, h, cmds) ==
    [envs EXCEPT ![h].commands = @ \o cmds, ![h].lastUsed = clock]

\* a sequence without its i-th element
Remove(seq, i) == SubSeq(seq, 1, i - 1) \o SubSeq(seq, i + 1, Len(seq))

\* no chat request and an empty SandboxManager
RouteIdle ==
    /\ requests = <<>>
    /\ sandboxes = [p \in ProjectIds |-> 0]
    /\ environments = <<>>
    /\ timers = [p \in ProjectIds |-> <<>>]
    /\ gitInstalled = FALSE
    /\ clock = 0
    /\ SelectIdle

\* no method of GitHubHelper was called
HelperIdle ==
    /\ pendingFork = NoFork
    /\ apiCalls = <<>>
    /\ apiReplies = <<>>
    /\ waiting = NoFork
    /\ attempts = 0
    /\ slept = 0
    /\ acquired = <<>>
    /\ pullCall = NoPullCall

\* no publish step and no call to the hosting service
PublishIdle ==
    /\ repoUrl = <<>>
    /\ userRequest = <<>>
    /\ forkOwner = <<>>
    /\ timestamp = NoTimestamp
    /\ pushed = <<>>
    /\ publishError = ""
    /\ hosting = HostingWith(Main, NoRepository, NoRepository)
    /\ HelperIdle
    /\ RouteIdle

RequestIdle ==
    /\ phase = "idle"
    /\ chunksLeft = 0
    /\ opIndex = 0
    /\ opsLeft = 0
    /\ operation = NoOperation
    /\ fs = [f \in Files |-> Absent]
    /\ fsBefore = [f \in Files |-> Absent]
    /\ writes = <<>>
    /\ shellIndex = 0
    /\ gitStep = 0
    /\ cmdLog = <<>>
    /\ ignoredExit = ""
    /\ thrown = ""
    /\ resLog = <<>>
    /\ resEnded = FALSE
    /\ generation = "pending"
    /\ PublishIdle

NoReply == [kind |-> "none", text |-> <<>>]
NoRun == [kind |-> "none", exitCode |-> 0, stdout |-> <<>>]

DiscoveryInit ==
    /\ node = "analyze_task"
    /\ userPrompt \in Prompts
    /\ modelReply = NoReply
    /\ selectedTool = Undefined
    /\ searchQuery = NoQuery
    /\ searchRun = NoRun
    /\ foundfiles = <<>>
    /\ RequestIdle

\* analyzeTask logs the keywords and returns no update
analyzeTask ==
    /\ node = "analyze_task"
    /\ node' = "select_tool"
    /\ UNCHANGED <<userPrompt, modelReply, selectedTool, searchQuery, searchRun, foundfiles>>
    /\ UNCHANGED <<avars, pvars, gvars, rvars>>

SelectToolNode ==
    /\ node = "select_tool"
    /\ \E reply \in ModelReplies :
        LET update == selectTool(userPrompt, reply)
        IN  /\ modelReply' = reply
            /\ selectedTool' = update.selectedTool
            /\ searchQuery' = update.searchQuery
    /\ node' = "execute_search"
    /\ UNCHANGED <<userPrompt, searchRun, foundfiles>>
    /\ UNCHANGED <<avars, pvars, gvars, rvars>>

\* executeSearch has no try/catch: a throwing run leaves the graph by an
\* exception, which invoke() passes to the caller.
ExecuteSearchNode ==
    /\ node = "execute_search"
    /\ \E outcome \in ProgramOutcomes :
        LET result == CommandsRun(SearchCommand(selectedTool, searchQuery), outcome)
        IN  /\ searchRun' = result
            /\ IF result.kind = "threw"
               THEN /\ node' = "raised"
                    /\ UNCHANGED foundfiles
               ELSE /\ node' = "END"
                    /\ foundfiles' = ParseFiles(result.stdout)
    /\ UNCHANGED <<userPrompt, modelReply, selectedTool, searchQuery>>
    /\ UNCHANGED <<avars, pvars, gvars, rvars>>

DiscoveryNext == analyzeTask \/ SelectToolNode \/ ExecuteSearchNode

SpecDiscovery == DiscoveryInit /\ [][DiscoveryNext]_vars

(***************************************************************************)
(* Claims about the discovery graph                                        *)
(***************************************************************************)

\* C1: the graph is total: whatever the request, the model's reply and the
\* outcome of the search command, no exception leaves the graph.
C1_NeverRaises == node # "raised"

\* C2: when the search command finishes with a nonzero exit code, the
\* returned foundfiles list is empty, whatever it printed.
C2_NonzeroExitGivesNoFiles ==
    (node = "END" /\ searchRun.kind = "returned" /\ searchRun.exitCode # 0)
        => foundfiles = <<>>

\* the model call failed, or its text is no JSON
ReplyUnusable(reply) ==
    \/ reply.kind = "error"
    \/ reply.kind = "text" /\ ~JSONparse(StripFences(trim(reply.text))).ok

\* C3: when the model call fails or its reply cannot be parsed as JSON,
\* select_tool hands grep and the request's keywords joined by \| to
\* execute_search, which runs next.
C3_FallbackIsGrepOverKeywords ==
    (node # "analyze_task" /\ node # "select_tool" /\ ReplyUnusable(modelReply))
        => /\ selectedTool = "grep"
           /\ searchQuery = join(extractKeywords(userPrompt), Alternation)
           /\ searchRun.kind = "none" => node = "execute_search"

\* a reply that is no JSON, for a request with two keywords
C3_Witness ==
    /\ node = "execute_search"
    /\ modelReply.kind = "text"
    /\ ReplyUnusable(modelReply)
    /\ Len(extractKeywords(userPrompt)) >= 2

(***************************************************************************)
(* One chat request, from the generation stream to the end of the response *)
(* (router.post('/chat'), from streamObject on).  The generation is drawn  *)
(* as it is consumed: each pass of a loop draws the next element, and a    *)
(* pass that throws draws how many elements the list still holds.          *)
(***************************************************************************)
\* No discovery graph runs: the chat route does not use it.
DiscoveryIdle ==
    /\ node = "idle"
    /\ userPrompt = <<>>
    /\ modelReply = NoReply
    /\ selectedTool = Undefined
    /\ searchQuery = NoQuery
    /\ searchRun = NoRun
    /\ foundfiles = <<>>

\* what the route has settled before the generation starts: the request body,
\* the upstream repository and the fork the working copy was cloned from
PublishInit(texts, urls, defaults) ==
    /\ repoUrl \in urls
    /\ userRequest \in texts
    /\ forkOwner = Dev
    /\ timestamp = NoTimestamp
    /\ pushed = <<>>
    /\ publishError = ""
    /\ hosting \in {HostingWith(b, ReadyFork, NoRepository) : b \in defaults}
    /\ HelperIdle
    /\ RouteIdle

RequestInit ==
    /\ DiscoveryIdle
    /\ phase = "streaming"
    /\ chunksLeft \in 0..MaxChunks
    /\ opIndex = 0
    /\ opsLeft = 0
    /\ operation = NoOperation
    /\ fs \in InitialFiles
    /\ fsBefore = fs
    /\ writes = <<>>
    /\ shellIndex = 0
    /\ gitStep = 0
    /\ cmdLog = <<>>
    /\ ignoredExit = ""
    /\ thrown = ""
    /\ resLog = <<>>
    /\ resEnded = FALSE
    /\ generation = "pending"
    /\ PublishInit({SubtractRequest}, {HttpsUrl}, {Develop})

\* for await (const chunk of stream) res.write(chunk)
RelayChunk ==
    /\ phase = "streaming"
    /\ chunksLeft > 0
    /\ chunksLeft' = chunksLeft - 1
    /\ resLog' = Append(resLog, Chunk)
    /\ UNCHANGED <<phase, opIndex, opsLeft, operation, fsBefore, writes, fs,
                   shellIndex, gitStep, cmdLog, ignoredExit, thrown, resEnded, generation>>
    /\ UNCHANGED <<dvars, pvars, gvars, rvars>>

\* a stream whose end is announced at any time
StreamCompleteAnyTime(left) == TRUE

\* the generation stream is complete: every text chunk has been yielded to the
\* relay loop, whose res.write is synchronous
StreamComplete(left) == left = 0

\* a handler that goes on to the file operations whatever it was given
PhaseAfterFinishAlways(object) == "fileOps"

\* if (!generation) return: without an object the handler logs and returns
PhaseAfterFinish(object) == IF object = "none" THEN "skipped" ELSE "fileOps"

\* The stream completes and onFinish is called, with the generation or
\* without one.
onFinish ==
    /\ phase = "streaming"
    /\ StreamComplete(chunksLeft)
    /\ \E object \in {"none", "object"} :
        /\ generation' = object
        /\ phase' = PhaseAfterFinish(object)
    /\ UNCHANGED <<chunksLeft, opIndex, opsLeft, operation, fsBefore, writes, fs,
                   shellIndex, gitStep, cmdLog, ignoredExit, thrown, resLog, resEnded>>
    /\ UNCHANGED <<dvars, pvars, gvars, rvars>>

\* a loop that goes on without waiting for the call of the pass
NotAwaited(op) == TRUE

\* await executor.executeFileOperation(...): the loop goes on when the call of
\* the pass has returned
Awaited(op) == op = NoOperation

\* One pass of the loop over generation.fileOperations.  An operation that
\* throws leaves the loop and the try block.
ApplyOperationFrom(operations) ==
    /\ phase = "fileOps"
    /\ Awaited(operation)
    /\ opIndex < MaxOps
    /\ \E op \in operations, fails \in IoFailures :
        LET done == executeFileOperation(fs, Resolved(op), fails)
        IN  /\ operation' = Resolved(op)
            /\ fsBefore' = fs
            /\ fs' = done.files
            /\ writes' = done.writes
            /\ IF done.error # ""
               THEN /\ phase' = PhaseAfterThrow
                    /\ thrown' = done.error
                    /\ opsLeft' \in 0..(MaxOps - opIndex - 1)
                    /\ UNCHANGED opIndex
               ELSE /\ opIndex' = opIndex + 1
                    /\ UNCHANGED <<phase, thrown, opsLeft>>
    /\ UNCHANGED <<chunksLeft, shellIndex, gitStep, cmdLog, ignoredExit, resLog, resEnded, generation>>
    /\ UNCHANGED <<dvars, pvars, gvars, rvars>>

ApplyFileOperation == ApplyOperationFrom(RequestOperations)

\* The pass is through: `operation` goes out of scope and the loop tests i.
NextPass ==
    /\ phase = "fileOps"
    /\ operation # NoOperation
    /\ operation' = NoOperation
    /\ fsBefore' = fs
    /\ writes' = <<>>
    /\ UNCHANGED <<phase, chunksLeft, opIndex, opsLeft, fs, shellIndex, gitStep, cmdLog,
                   ignoredExit, thrown, resLog, resEnded, generation>>
    /\ UNCHANGED <<dvars, pvars, gvars, rvars>>

\* The loop is through.
FileOperationsDone ==
    /\ phase = "fileOps"
    /\ Awaited(operation)
    /\ phase' = "shell"
    /\ UNCHANGED <<chunksLeft, opIndex, opsLeft, operation, fsBefore, writes, fs, shellIndex,
                   gitStep, cmdLog, ignoredExit, thrown, resLog, resEnded, generation>>
    /\ UNCHANGED <<dvars, pvars, gvars, rvars>>

\* a runCommand that raises when the exit code is not 0
runCommandChecksExit(outcome) == outcome.threw \/ outcome.exitCode # 0

\* executor.runCommand raises what sandbox.commands.run raised and returns the
\* stdout otherwise: the exit code is not looked at
runCommandThrows(outcome) == outcome.threw

\* One pass of the loop over generation.shellCommands.
RunShellCommand ==
    /\ phase = "shell"
    /\ shellIndex < MaxShell
    /\ \E outcome \in CommandOutcomes :
        /\ cmdLog' = Append(cmdLog, "shell command")
        /\ ignoredExit' = FirstIgnored(ignoredExit, "shell command", outcome)
        /\ IF runCommandThrows(outcome)
           THEN /\ phase' = PhaseAfterThrow
                /\ thrown' = "shell command"
                /\ UNCHANGED shellIndex
           ELSE /\ shellIndex' = shellIndex + 1
                /\ UNCHANGED <<phase, thrown>>
    /\ UNCHANGED <<chunksLeft, opIndex, opsLeft, operation, fsBefore, writes,
                   fs, gitStep, resLog, resEnded, generation>>
    /\ UNCHANGED <<dvars, pvars, gvars, rvars>>

\* The shell commands are through (or there was none).
\* The publish step starts with the time stamp of the branch name.
ShellCommandsDone ==
    /\ phase = "shell"
    /\ phase' = "publish"
    /\ timestamp' \in Timestamps
    /\ UNCHANGED <<chunksLeft, opIndex, opsLeft, operation, fsBefore, writes,
                   fs, shellIndex, gitStep, cmdLog, ignoredExit, thrown, resLog, resEnded, generation>>
    /\ UNCHANGED <<repoUrl, userRequest, forkOwner, pushed, publishError>>
    /\ UNCHANGED <<dvars, gvars, rvars>>

\* One command of the git sequence; a throw, or a tested exit code that is not
\* 0, goes to the inner catch, which writes the failure marker.
GitStep ==
    /\ phase = "publish"
    /\ gitStep < Len(GitSequence)
    /\ \E outcome \in CommandOutcomes :
      \E stderr \in Stderrs(GitSequence[gitStep + 1], outcome) :
        LET step == GitSequence[gitStep + 1]
            error == GitStepErrorWith(step, outcome, stderr)
            caught == PublishCatch(fs, resLog, error)
        IN  /\ cmdLog' = Append(cmdLog, step.cmd)
            /\ IF error # ""
               THEN /\ publishError' = error
                    /\ resLog' = caught.log
                    /\ fs' = caught.files
                    /\ phase' = "fileTree"
                    /\ UNCHANGED <<gitStep, ignoredExit, pushed>>
               ELSE /\ gitStep' = gitStep + 1
                    /\ ignoredExit' = FirstIgnored(ignoredExit, step.cmd, outcome)
                    /\ pushed' = IF step.cmd = "git push"
                                 THEN branchName(timestamp, userRequest)
                                 ELSE pushed
                    /\ UNCHANGED <<phase, resLog, fs, publishError>>
    /\ UNCHANGED <<chunksLeft, opIndex, opsLeft, operation, fsBefore, writes,
                   shellIndex, thrown, resEnded, generation>>
    /\ UNCHANGED <<repoUrl, userRequest, forkOwner, timestamp>>
    /\ UNCHANGED <<dvars, gvars, rvars>>

\* githubHelper.createPullRequest(originalOwner, originalRepo, forkOwner,
\* branchName, prTitle, prBody), then the success marker
CreatePullRequest ==
    /\ phase = "publish"
    /\ gitStep = Len(GitSequence)
    /\ \E original \in {parseGitHubUrl(repoUrl)},
          branch \in {branchName(timestamp, userRequest)} :
       \E getOk \in BOOLEAN, createOk \in BOOLEAN :
       \E made \in {createPullRequest(hosting, original.owner, original.repo, forkOwner,
                                      branch, NotPassed, getOk, createOk)} :
        LET caught == PublishCatch(fs, resLog, made.error)
        IN  /\ apiCalls' = apiCalls \o made.calls
            /\ apiReplies' = apiReplies \o made.replies
            /\ IF made.error # ""
               THEN /\ publishError' = made.error
                    /\ resLog' = caught.log
                    /\ fs' = caught.files
               ELSE /\ resLog' = Append(resLog, PrCreated)
                    /\ UNCHANGED <<fs, publishError>>
    /\ phase' = "fileTree"
    /\ UNCHANGED <<chunksLeft, opIndex, opsLeft, operation, fsBefore, writes,
                   shellIndex, gitStep, cmdLog, ignoredExit, thrown, resEnded, generation>>
    /\ UNCHANGED <<repoUrl, userRequest, forkOwner, timestamp, pushed>>
    /\ UNCHANGED <<dvars, hosting, hvars, rvars>>

\* executor.getFileTree after the publish step, then onFinish returns
GetFileTree ==
    /\ phase = "fileTree"
    /\ \E outcome \in CommandOutcomes :
        /\ cmdLog' = Append(cmdLog, "find")
        /\ ignoredExit' = FirstIgnored(ignoredExit, "find", outcome)
        /\ IF outcome.threw
           THEN /\ phase' = PhaseAfterThrow
                /\ thrown' = "getFileTree"
           ELSE /\ phase' = "done"
                /\ UNCHANGED thrown
    /\ UNCHANGED <<chunksLeft, opIndex, opsLeft, operation, fsBefore, writes,
                   fs, shellIndex, gitStep, resLog, resEnded, generation>>
    /\ UNCHANGED <<dvars, pvars, gvars, rvars>>

\* The relay loop is through: res.end()
ResEnd ==
    /\ phase \in {"skipped", "done", "raised"}
    /\ ~resEnded
    /\ resEnded' = TRUE
    /\ UNCHANGED <<phase, chunksLeft, opIndex, opsLeft, operation, fsBefore,
                   writes, fs, shellIndex, gitStep, cmdLog, ignoredExit, thrown, resLog, generation>>
    /\ UNCHANGED <<dvars, pvars, gvars, rvars>>

\* The error onFinish threw comes out of the relay loop, into the catch of the
\* route: a 500 with the message when no header was sent yet, res.end() otherwise.
RouteCatch ==
    /\ phase = "raised"
    /\ ~resEnded
    /\ resEnded' = TRUE
    /\ resLog' = IF resLog = <<>> THEN <<Status500(thrown)>> ELSE resLog
    /\ UNCHANGED <<phase, chunksLeft, opIndex, opsLeft, operation, fsBefore,
                   writes, fs, shellIndex, gitStep, cmdLog, ignoredExit, thrown, generation>>
    /\ UNCHANGED <<dvars, pvars, gvars, rvars>>

RequestNext ==
    \/ RelayChunk
    \/ onFinish
    \/ ApplyFileOperation
    \/ NextPass
    \/ FileOperationsDone
    \/ RunShellCommand
    \/ ShellCommandsDone
    \/ GitStep
    \/ CreatePullRequest
    \/ GetFileTree
    \/ ResEnd
    \/ RouteCatch

SpecApply == RequestInit /\ [][RequestNext]_vars

(***************************************************************************)
(* Specification SpecPublish: the same handler from the end of the file    *)
(* operations on, over the request texts and repository URLs               *)
(***************************************************************************)
PublishStepInit ==
    /\ DiscoveryIdle
    /\ phase = "shell"
    /\ chunksLeft = 0
    /\ opIndex = 0
    /\ opsLeft = 0
    /\ operation = NoOperation
    /\ fs \in InitialFiles
    /\ fsBefore = fs
    /\ writes = <<>>
    /\ shellIndex = 0
    /\ gitStep = 0
    /\ cmdLog = <<>>
    /\ ignoredExit = ""
    /\ thrown = ""
    /\ resLog = <<>>
    /\ resEnded = FALSE
    /\ generation = "object"
    /\ PublishInit(UserRequests, RepoUrls, Branches)

PublishNext ==
    \/ RunShellCommand
    \/ ShellCommandsDone
    \/ GitStep
    \/ CreatePullRequest
    \/ GetFileTree
    \/ ResEnd
    \/ RouteCatch

SpecPublish == PublishStepInit /\ [][PublishNext]_vars

(***************************************************************************)
(* Specification SpecGitHub: the methods of GitHubHelper against the       *)
(* hosting service, called one after the other for acme/widget             *)
(***************************************************************************)
\* what the user owns under the upstream's name and under the name of a fork
\* made while that name was taken
UserRepositories ==
    { <<NoRepository, NoRepository>>, <<ReadyFork, NoRepository>>,
      <<UnrelatedRepository, NoRepository>>, <<UnrelatedRepository, ReadyFork>>,
      <<NoRepository, ReadyFork>> }

GitHubInit ==
    /\ DiscoveryIdle
    /\ phase = "idle"
    /\ chunksLeft = 0
    /\ opIndex = 0
    /\ opsLeft = 0
    /\ operation = NoOperation
    /\ fs = [f \in Files |-> Absent]
    /\ fsBefore = fs
    /\ writes = <<>>
    /\ shellIndex = 0
    /\ gitStep = 0
    /\ cmdLog = <<>>
    /\ ignoredExit = ""
    /\ thrown = ""
    /\ resLog = <<>>
    /\ resEnded = FALSE
    /\ generation = "pending"
    /\ repoUrl = HttpsUrl
    /\ userRequest = ShortRequest
    /\ forkOwner = <<>>
    /\ timestamp \in Timestamps
    /\ pushed = <<>>
    /\ publishError = ""
    /\ hosting \in {HostingWith(b, r[1], r[2]) : b \in Branches, r \in UserRepositories}
    /\ HelperIdle
    /\ RouteIdle

\* One fork acquisition of the route, up to the return of getFork or, when that
\* found no fork, up to the answer of repos.createFork in forkRepository.
AcquireFork ==
    /\ waiting = NoFork
    /\ Len(acquired) < MaxAcquisitions
    /\ \E original \in {parseGitHubUrl(repoUrl)} :
       \E userReply \in {"resolved", "rejected"},
          getReply \in ReposGetReplies(hosting, <<Dev, original.repo>>),
          createReply \in {"resolved", "rejected"} :
       \E found \in {getFork(hosting, Dev, original.owner, original.repo,
                              userReply, getReply)} :
        LET target == createForkTarget(hosting, pendingFork, Dev,
                                       original.owner, original.repo)
        IN  IF found.error # ""
            THEN /\ acquired' = Append(acquired, AcquireFailed(found.error, FALSE))
                 /\ apiCalls' = found.calls
                 /\ apiReplies' = found.replies
                 /\ UNCHANGED <<waiting, pendingFork, forkOwner>>
            ELSE IF found.info.exists
            THEN /\ acquired' = Append(acquired, Acquired(found.info.cloneUrl,
                                                          found.info.forkOwner, FALSE))
                 /\ forkOwner' = found.info.forkOwner
                 /\ apiCalls' = found.calls
                 /\ apiReplies' = found.replies
                 /\ UNCHANGED <<waiting, pendingFork>>
            ELSE /\ apiCalls' = Append(found.calls, CreateFork(original.owner, original.repo))
                 /\ apiReplies' = Append(found.replies, createReply)
                 /\ IF createReply = "resolved"
                    THEN /\ waiting' = target
                         /\ pendingFork' = IF hosting[target].exists THEN pendingFork
                                            ELSE target
                         /\ UNCHANGED acquired
                    ELSE /\ acquired' = Append(acquired,
                                    AcquireFailed("repos.createFork rejected", TRUE))
                         /\ UNCHANGED <<waiting, pendingFork>>
                 /\ UNCHANGED forkOwner
    /\ attempts' = 0
    /\ slept' = 0
    /\ pullCall' = NoPullCall
    /\ UNCHANGED <<repoUrl, userRequest, timestamp, pushed, publishError, hosting>>
    /\ UNCHANGED <<dvars, avars, rvars>>

\* how the lookup of waitForFork can end: its catch takes a 404 like every other
\* rejection
LookupReplies(repos, key) ==
    {IF reply = "resolved" THEN "resolved" ELSE "rejected" : reply \in ReposGetReplies(repos, key)}

\* One pass of the loop of waitForFork: the lookup, and the return or the wait
\* of two seconds.
WaitForForkLookup ==
    /\ waiting # NoFork
    /\ MoreAttempts(attempts)
    /\ \E reply \in LookupReplies(hosting, waiting) :
        /\ apiCalls' = Append(apiCalls, ReposGet(waiting[1], waiting[2]))
        /\ apiReplies' = Append(apiReplies, reply)
        /\ attempts' = attempts + 1
        /\ IF reply = "resolved"
           THEN /\ acquired' = Append(acquired,
                        Acquired(CloneUrl(waiting[1], waiting[2]), waiting[1], TRUE))
                /\ forkOwner' = waiting[1]
                /\ waiting' = NoFork
                /\ UNCHANGED slept
           ELSE /\ slept' = slept + WaitMs
                /\ UNCHANGED <<acquired, forkOwner, waiting>>
    /\ UNCHANGED <<repoUrl, userRequest, timestamp, pushed, publishError, hosting,
                   pendingFork, pullCall>>
    /\ UNCHANGED <<dvars, avars, rvars>>

\* The loop of waitForFork is through: throw new Error('Fork creation timed out')
WaitForForkTimeout ==
    /\ waiting # NoFork
    /\ ~MoreAttempts(attempts)
    /\ acquired' = Append(acquired, AcquireFailed("Fork creation timed out", TRUE))
    /\ waiting' = NoFork
    /\ UNCHANGED <<hosting, pendingFork, apiCalls, apiReplies, attempts, slept, pullCall>>
    /\ UNCHANGED <<dvars, avars, pvars, rvars>>

\* The hosting service is through with creating the fork.
HostingCreatesFork ==
    /\ pendingFork # NoFork
    /\ hosting' = [hosting EXCEPT ![pendingFork] = ReadyFork]
    /\ pendingFork' = NoFork
    /\ UNCHANGED <<apiCalls, apiReplies, waiting, attempts, slept, acquired, pullCall>>
    /\ UNCHANGED <<dvars, avars, pvars, rvars>>

\* the base branches createPullRequest is called with
BaseBranches == {NotPassed, <<>>, Main, Develop}

\* A call of createPullRequest for a branch of the fork.
RequestPullRequest ==
    /\ waiting = NoFork
    /\ ~pullCall.called
    /\ \E original \in {parseGitHubUrl(repoUrl)},
          branch \in {branchName(timestamp, userRequest)} :
       \E baseBranch \in BaseBranches, getOk \in BOOLEAN, createOk \in BOOLEAN :
       \E made \in {createPullRequest(hosting, original.owner, original.repo, Dev,
                                      branch, baseBranch, getOk, createOk)} :
            /\ apiCalls' = made.calls
            /\ apiReplies' = made.replies
            /\ pullCall' = [called |-> TRUE, baseBranch |-> baseBranch, branch |-> branch,
                            error |-> made.error]
    /\ UNCHANGED <<hosting, pendingFork, waiting, attempts, slept, acquired>>
    /\ UNCHANGED <<dvars, avars, pvars, rvars>>

GitHubNext ==
    \/ AcquireFork
    \/ WaitForForkLookup
    \/ WaitForForkTimeout
    \/ HostingCreatesFork
    \/ RequestPullRequest

SpecGitHub == GitHubInit /\ [][GitHubNext]_vars

\* the loop of waitForFork runs on while the request is served
SpecGitHubLive ==
    GitHubInit /\ [][GitHubNext]_vars /\ WF_vars(WaitForForkLookup \/ WaitForForkTimeout)

(***************************************************************************)
(* SandboxExecutor.executeFileOperation on its own: one operation, applied *)
(* to the working copy once and then again, each call with a sandbox that  *)
(* does the I/O or fails it.                                               *)
(***************************************************************************)
(***************************************************************************)
(* The loop over generation.fileOperations with every kind of path         *)
(***************************************************************************)
\* the operations of a generation, at every kind of path
GenerationOperations == OperationsAt(GenerationPaths, {<<"a","b">>}, {})

PathsInit ==
    /\ DiscoveryIdle
    /\ phase = "fileOps"
    /\ chunksLeft = 0
    /\ opIndex = 0
    /\ opsLeft = 0
    /\ operation = NoOperation
    /\ fs \in {[f \in GenerationFiles |-> IF f = fullPath(MathTs) THEN Stored(c) ELSE Absent]
                  : c \in InitialContents}
    /\ fsBefore = fs
    /\ writes = <<>>
    /\ shellIndex = 0
    /\ gitStep = 0
    /\ cmdLog = <<>>
    /\ ignoredExit = ""
    /\ thrown = ""
    /\ resLog = <<>>
    /\ resEnded = FALSE
    /\ generation = "object"
    /\ PublishInit({SubtractRequest}, {HttpsUrl}, {Develop})

ApplyGeneratedOperation == ApplyOperationFrom(GenerationOperations)

PathsNext == ApplyGeneratedOperation \/ NextPass \/ FileOperationsDone

SpecPaths == PathsInit /\ [][PathsNext]_vars

(***************************************************************************)
(* One call of selectFilesToModify                                         *)
(***************************************************************************)
SelectInit ==
    /\ DiscoveryIdle
    /\ phase = "idle"
    /\ chunksLeft = 0
    /\ opIndex = 0
    /\ opsLeft = 0
    /\ operation = NoOperation
    /\ fs = [f \in Files |-> Absent]
    /\ fsBefore = fs
    /\ writes = <<>>
    /\ shellIndex = 0
    /\ gitStep = 0
    /\ cmdLog = <<>>
    /\ ignoredExit = ""
    /\ thrown = ""
    /\ resLog = <<>>
    /\ resEnded = FALSE
    /\ generation = "pending"
    /\ repoUrl = <<>>
    /\ userRequest = <<>>
    /\ forkOwner = <<>>
    /\ timestamp = NoTimestamp
    /\ pushed = <<>>
    /\ publishError = ""
    /\ hosting = HostingWith(Main, ReadyFork, NoRepository)
    /\ HelperIdle
    /\ requests = <<>>
    /\ sandboxes = [p \in ProjectIds |-> 0]
    /\ environments = <<>>
    /\ timers = [p \in ProjectIds |-> <<>>]
    /\ gitInstalled = FALSE
    /\ clock = 0
    /\ candidateFiles \in SeqsUpTo(CandidatePaths, MaxCandidates)
    /\ reads = <<>>
    /\ fileContents = <<>>
    /\ llmPrompt = NotCalled
    /\ llmText = NoText
    /\ selectedFiles = <<>>
    /\ selectPc = "reading"

\* One pass of the loop over candidateFiles: readFile returns and the content
\* is set in the Map, or it throws and the catch logs the failure.
ReadCandidate ==
    /\ selectPc = "reading"
    /\ Len(reads) < Len(candidateFiles)
    /\ \E read \in BOOLEAN :
        /\ reads' = Append(reads, read)
        /\ IF read
           THEN /\ fileContents' = MapSet(fileContents, candidateFiles[Len(reads) + 1])
                /\ UNCHANGED selectPc
           ELSE /\ selectPc' = AfterReadFailure
                /\ UNCHANGED fileContents
    /\ UNCHANGED <<candidateFiles, llmPrompt, llmText, selectedFiles>>
    /\ UNCHANGED <<requests, sandboxes, environments, timers, gitInstalled, clock>>
    /\ UNCHANGED <<dvars, avars, pvars, gvars>>

\* The loop is through: filesSection is built from the Map and the prompt is
\* sent to the model.
SendToModel ==
    /\ selectPc = "reading"
    /\ Len(reads) = Len(candidateFiles)
    /\ llmPrompt' = fileContents
    /\ selectPc' = "model"
    /\ UNCHANGED <<candidateFiles, reads, fileContents, llmText, selectedFiles>>
    /\ UNCHANGED <<requests, sandboxes, environments, timers, gitInstalled, clock>>
    /\ UNCHANGED <<dvars, avars, pvars, gvars>>

\* generateText returns a text, which is parsed and returned, or it rejects and
\* the rejection leaves the function.
ModelReplied ==
    /\ selectPc = "model"
    /\ \E text \in Responses \cup {Rejected} :
        /\ llmText' = text
        /\ IF text = Rejected
           THEN /\ selectPc' = "raised"
                /\ UNCHANGED selectedFiles
           ELSE /\ selectPc' = "returned"
                /\ selectedFiles' = ParseSelection(text)
    /\ UNCHANGED <<candidateFiles, reads, fileContents, llmPrompt>>
    /\ UNCHANGED <<requests, sandboxes, environments, timers, gitInstalled, clock>>
    /\ UNCHANGED <<dvars, avars, pvars, gvars>>

SelectNext == ReadCandidate \/ SendToModel \/ ModelReplied

SpecSelect == SelectInit /\ [][SelectNext]_vars

EngineInit ==
    /\ DiscoveryIdle
    /\ phase = "idle"
    /\ chunksLeft = 0
    /\ opIndex = 0
    /\ opsLeft = 0
    /\ operation \in {Resolved(op) : op \in FileOperations}
    /\ fs \in InitialFiles
    /\ fsBefore = fs
    /\ writes = <<>>
    /\ shellIndex = 0
    /\ gitStep = 0
    /\ cmdLog = <<>>
    /\ ignoredExit = ""
    /\ thrown = ""
    /\ resLog = <<>>
    /\ resEnded = FALSE
    /\ generation = "pending"
    /\ PublishIdle

\* await executor.executeFileOperation(sandbox, operation): opIndex counts the
\* calls that returned
ExecuteFileOperation ==
    /\ phase = "idle"
    /\ thrown = ""
    /\ opIndex < MaxOps
    /\ \E fails \in IoFailures :
        LET done == executeFileOperation(fs, operation, fails)
        IN  /\ fsBefore' = fs
            /\ fs' = done.files
            /\ writes' = done.writes
            /\ IF done.error # ""
               THEN thrown' = done.error /\ UNCHANGED opIndex
               ELSE opIndex' = opIndex + 1 /\ UNCHANGED thrown
    /\ UNCHANGED <<phase, chunksLeft, opsLeft, operation, shellIndex, gitStep, cmdLog,
                   ignoredExit, resLog, resEnded, generation>>
    /\ UNCHANGED <<dvars, pvars, gvars, rvars>>

EngineNext == ExecuteFileOperation

SpecEngine == EngineInit /\ [][EngineNext]_vars

\* the call of executeFileOperation that was made last
Called == opIndex > 0 \/ thrown # ""
Returned == opIndex > 0 /\ thrown = ""

\* readFile returned the content of the file
ReadSucceeded ==
    fsBefore[operation.path].exists /\ thrown \notin {"file not found", "read failed"}

\* the content the updateFile case read
ReadContent == fsBefore[operation.path].content

\* pair.search is found in the buffer, as a pattern or as literal text
Found(content, search) ==
    \/ RegExpCompiles(search) /\ RegExpMatches(content, search)
    \/ includesText(content, search)

\* C4: an updateFile operation with two pairs leaves the file with the first
\* pair applied to the content read and the second pair applied to what the
\* first pair left, in particular when the second search text is found only
\* in what the first pair produced.
C4_PairsAreChained ==
    (/\ Returned
     /\ operation.type = "updateFile"
     /\ Len(operation.searchReplace) = 2)
        => LET first == ApplyPair(ReadContent, operation.searchReplace[1]).content
           IN  fs[operation.path].content
                    = ApplyPair(first, operation.searchReplace[2]).content

C4_Witness ==
    /\ Returned
    /\ operation.type = "updateFile"
    /\ Len(operation.searchReplace) = 2
    /\ LET first == ApplyPair(ReadContent, operation.searchReplace[1]).content
           second == operation.searchReplace[2]
       IN  /\ ~Found(ReadContent, second.search)
           /\ Found(first, second.search)
           /\ fs[operation.path].content # first
           /\ fs[operation.path].content # ApplyPair(ReadContent, second).content

\* the buffer the last pair of the operation works on
BufferBeforeLast ==
    ApplyPairs(ReadContent,
               SubSeq(operation.searchReplace, 1, Len(operation.searchReplace) - 1),
               FALSE).content

LastPair == operation.searchReplace[Len(operation.searchReplace)]

\* the last pair does not compile as a regular expression and its search text
\* is in the buffer
LastPairInvalidButPresent ==
    /\ Called
    /\ operation.type = "updateFile"
    /\ ReadSucceeded
    /\ operation.searchReplace # <<>>
    /\ ~RegExpCompiles(LastPair.search)
    /\ includesText(BufferBeforeLast, LastPair.search)

\* C5: a pair whose search text is no valid regular expression and occurs in
\* the buffer replaces every occurrence by the replace text, taken literally,
\* and the operation does not throw for it: with a sandbox that does the I/O
\* the call returns.
C5_InvalidRegexFallsBackToLiteral ==
    LastPairInvalidButPresent
        => /\ executeFileOperation(fsBefore, operation, "none").error = ""
           /\ thrown \in {"", "write failed"}
                => /\ Len(writes) = 1
                   /\ writes[1].content
                        = LiteralReplace(BufferBeforeLast, LastPair.search, LastPair.replace)
           /\ thrown = "" => fs[operation.path].content = writes[1].content

C5_Witness ==
    /\ LastPairInvalidButPresent
    /\ Returned
    /\ Len(operation.searchReplace) = 2
    /\ BufferBeforeLast # ReadContent
    /\ fs[operation.path].content # BufferBeforeLast
    /\ ~includesText(fs[operation.path].content, LastPair.search)

C8_RewriteIsIdempotent ==
    (/\ Returned
     /\ opIndex >= 2
     /\ operation.type \in {"rewriteFile", "createFile"})
        => /\ fs = fsBefore
           /\ fs[operation.path] = Stored(operation.content)

C8_Witness ==
    /\ Returned
    /\ opIndex >= 2
    /\ operation.type = "rewriteFile"
    /\ operation.content # <<>>
    /\ fs[operation.path] = Stored(operation.content)

(***************************************************************************)
(* Claims about the file-operation loop of onFinish (SpecApply)            *)
(***************************************************************************)
\* the buffer pair i of the operation works on
BufferBefore(i) ==
    ApplyPairs(ReadContent, SubSeq(operation.searchReplace, 1, i - 1), FALSE).content

\* pair i is found neither as a pattern nor as literal text
MissAt(i) == ~Found(BufferBefore(i), operation.searchReplace[i].search)

WithoutPair(searchReplace, i) ==
    SubSeq(searchReplace, 1, i - 1) \o SubSeq(searchReplace, i + 1, Len(searchReplace))

\* C6: a pair that is found neither as a pattern nor as literal text changes
\* nothing: the operation does not throw for it, it leaves the file with what
\* its other pairs make of the content, and the loop over the operations goes
\* on.
C6_UnmatchedPairIsSkipped ==
    (operation.type = "updateFile" /\ ReadSucceeded)
        => \A i \in DOMAIN operation.searchReplace :
            MissAt(i)
                => /\ executeFileOperation(fsBefore, operation, "none").error = ""
                   /\ thrown = ""
                        => /\ phase = "fileOps"
                           /\ opIndex >= 1
                           /\ fs[operation.path].content
                                = ApplyPairs(ReadContent,
                                             WithoutPair(operation.searchReplace, i),
                                             FALSE).content

C6_Witness ==
    /\ operation.type = "updateFile"
    /\ Len(operation.searchReplace) = 2
    /\ ReadSucceeded
    /\ MissAt(1)
    /\ ~MissAt(2)
    /\ thrown = ""
    /\ phase = "fileOps"
    /\ opIndex = MaxOps
    /\ fs[operation.path].content # ReadContent

\* a marker of the publish step is in the response
IsPublishMarker(entry) == entry.type \in {"__PR_CREATED__", "__PR_FAILED__"}

\* C9: once a file operation has thrown, the working copy stays as the
\* operations before it left it, no further operation is applied, and no
\* shell command and no step of the publish sequence runs.
C9_AbortStopsTheBatch ==
    /\ [](thrown \in FileOperationErrors
            => /\ fs = fsBefore
               /\ cmdLog = <<>>
               /\ shellIndex = 0
               /\ gitStep = 0
               /\ \A i \in DOMAIN resLog : ~IsPublishMarker(resLog[i]))
    /\ [][(thrown \in FileOperationErrors)
            => /\ fs' = fs
               /\ opIndex' = opIndex
               /\ operation' = operation
               /\ thrown' = thrown]_vars

C9_Witness ==
    /\ thrown = "file not found"
    /\ operation.type = "updateFile"
    /\ ~fsBefore[operation.path].exists
    /\ opIndex >= 1
    /\ opsLeft >= 1
    /\ fs \notin InitialFiles
    /\ resEnded

\* C10: when an updateFile operation could not read its file, the response
\* of the request carries a failure payload with the error before it ends.
C10_AbortIsReported ==
    (/\ resEnded
     /\ thrown \in {"file not found", "read failed"}
     /\ operation.type = "updateFile")
        => \E i \in DOMAIN resLog :
            /\ resLog[i].type \in {"__PR_FAILED__", "status500"}
            /\ resLog[i].error = thrown

(***************************************************************************)
(* Specification SpecRoute: chat requests in flight at the same time, from *)
(* the validation of the body to the sandbox of the project                *)
(***************************************************************************)
RouteInit ==
    /\ DiscoveryIdle
    /\ phase = "idle"
    /\ chunksLeft = 0
    /\ opIndex = 0
    /\ opsLeft = 0
    /\ operation = NoOperation
    /\ fs = [f \in Files |-> Absent]
    /\ fsBefore = fs
    /\ writes = <<>>
    /\ shellIndex = 0
    /\ gitStep = 0
    /\ cmdLog = <<>>
    /\ ignoredExit = ""
    /\ thrown = ""
    /\ resLog = <<>>
    /\ resEnded = FALSE
    /\ generation = "pending"
    /\ repoUrl = <<>>
    /\ userRequest = <<>>
    /\ forkOwner = <<>>
    /\ timestamp = NoTimestamp
    /\ pushed = <<>>
    /\ publishError = ""
    /\ hosting = HostingWith(Main, ReadyFork, NoRepository)
    /\ HelperIdle
    /\ requests \in [Requests -> {Received(body) : body \in Bodies}]
    /\ sandboxes = [p \in ProjectIds |-> 0]
    /\ environments = <<>>
    /\ timers = [p \in ProjectIds |-> <<>>]
    /\ gitInstalled = FALSE
    /\ clock = 0
    /\ SelectIdle

\* The body is validated, the project id settled, the headers set and the
\* token of the hosting service looked for.
ValidateBody(r) ==
    /\ requests[r].pc = "received"
    /\ \E tokenSet \in BOOLEAN :
        LET message == validate(requests[r].body)
            project == projectIdOf(requests[r].body, r)
        IN  requests' = [requests EXCEPT ![r] =
                IF message # "" THEN Answered(@, 400, message)
                ELSE IF ~tokenSet
                THEN Answered([@ EXCEPT !.projectId = project], 500,
                              "GITHUB_ACCESS_TOKEN not configured in .env")
                ELSE [@ EXCEPT !.projectId = project, !.pc = "github"]]
    /\ UNCHANGED <<sandboxes, environments, timers, gitInstalled, clock>>
    /\ UNCHANGED <<dvars, avars, pvars, gvars, svars>>

\* parseGitHubUrl, getAuthenticatedUser and the fork acquisition; an error goes
\* to the catch of the route, which answers 500 with its message.
GitHubSetup(r) ==
    /\ requests[r].pc = "github"
    /\ \E parsed \in {parseGitHubUrl(requests[r].body.repoUrl)}, apiOk \in BOOLEAN :
        requests' = [requests EXCEPT ![r] =
            IF ~parsed.valid THEN Answered(@, 500, "Invalid GitHub URL")
            ELSE IF ~apiOk THEN Answered([@ EXCEPT !.calledApi = TRUE], 500, "hosting API")
            ELSE [@ EXCEPT !.calledApi = TRUE, !.pc = "sandbox"]]
    /\ UNCHANGED <<sandboxes, environments, timers, gitInstalled, clock>>
    /\ UNCHANGED <<dvars, avars, pvars, gvars, svars>>

\* sandboxManager.get(projectId), and the call of sandboxManager.create when
\* there is none: create throws without the key, else it awaits Sandbox.create.
\* get returns the entry of the map and touches no timer.
GetSandbox(r) ==
    /\ requests[r].pc = "sandbox"
    /\ \E keySet \in BOOLEAN :
        LET sandbox == sandboxes[requests[r].projectId]
        IN  /\ requests' = [requests EXCEPT ![r] =
                IF sandbox # 0 THEN [@ EXCEPT !.sandbox = sandbox, !.pc = "clone"]
                ELSE IF ~keySet
                THEN Answered(@, 500, "E2B_API_KEY is not set in environment variables")
                ELSE [@ EXCEPT !.pc = "creating"]]
            /\ environments' = IF sandbox # 0 THEN Used(environments, sandbox, <<>>)
                               ELSE environments
    /\ UNCHANGED <<sandboxes, timers, gitInstalled, clock>>
    /\ UNCHANGED <<dvars, avars, pvars, gvars, svars>>

\* Sandbox.create is through: create stores the sandbox under the project id,
\* sets the cleanup timer TIMEOUT from now and returns the sandbox; or
\* Sandbox.create rejected.  The image of the environment has git or has not.
SandboxCreated(r) ==
    /\ requests[r].pc = "creating"
    /\ \E created \in BOOLEAN, hasGit \in BOOLEAN :
        LET sandbox == Len(environments) + 1
            project == requests[r].projectId
        IN  IF created
            THEN /\ environments' = Append(environments, Environment(project, hasGit))
                 /\ sandboxes' = [sandboxes EXCEPT ![project] = sandbox]
                 /\ timers' = [timers EXCEPT ![project] = Append(@, clock + TIMEOUT)]
                 /\ requests' = [requests EXCEPT ![r] =
                                    [@ EXCEPT !.sandbox = sandbox, !.pc = "clone"]]
            ELSE /\ hasGit
                 /\ requests' = [requests EXCEPT ![r] = Answered(@, 500, "Sandbox.create")]
                 /\ UNCHANGED <<sandboxes, environments, timers>>
    /\ UNCHANGED <<gitInstalled, clock>>
    /\ UNCHANGED <<dvars, avars, pvars, gvars, svars>>

\* cloneRepository calls ensureGitInstalled, which returns at once when the
\* flag of the executor is set
EnsureGitInstalled(r) ==
    /\ requests[r].pc = "clone"
    /\ requests' = [requests EXCEPT ![r].pc = IF gitInstalled THEN "cloning" ELSE "gitcheck"]
    /\ UNCHANGED <<sandboxes, environments, timers, gitInstalled, clock>>
    /\ UNCHANGED <<dvars, avars, pvars, gvars, svars>>

\* `git --version` has run in the sandbox of the request: exit code 0 sets the
\* flag, another exit code leads to the install.  A command in a killed
\* environment throws, and the catch of the route answers 500.
GitVersion(r) ==
    /\ requests[r].pc = "gitcheck"
    /\ \E env \in {environments[requests[r].sandbox]} :
        IF ~env.alive
        THEN /\ requests' = [requests EXCEPT ![r] = Answered(@, 500, "sandbox not found")]
             /\ UNCHANGED <<environments, gitInstalled>>
        ELSE /\ environments' = Used(environments, requests[r].sandbox, <<GitVersionCommand>>)
             /\ gitInstalled' = (gitInstalled \/ env.hasGit)
             /\ requests' = [requests EXCEPT ![r].pc =
                                IF env.hasGit THEN "cloning" ELSE "installing"]
    /\ UNCHANGED <<sandboxes, timers, clock>>
    /\ UNCHANGED <<dvars, avars, pvars, gvars, svars>>

\* the install command has run: a nonzero exit code throws "Failed to install
\* git locally.", exit code 0 sets the flag
InstallGit(r) ==
    /\ requests[r].pc = "installing"
    /\ \E env \in {environments[requests[r].sandbox]}, installed \in BOOLEAN :
        IF ~env.alive
        THEN /\ installed
             /\ requests' = [requests EXCEPT ![r] = Answered(@, 500, "sandbox not found")]
             /\ UNCHANGED <<environments, gitInstalled>>
        ELSE /\ environments' =
                    [Used(environments, requests[r].sandbox, <<InstallCommand>>)
                        EXCEPT ![requests[r].sandbox].hasGit = installed]
             /\ gitInstalled' = (gitInstalled \/ installed)
             /\ requests' = [requests EXCEPT ![r] =
                                IF installed THEN [@ EXCEPT !.pc = "cloning"]
                                ELSE Answered(@, 500, "Failed to install git locally.")]
    /\ UNCHANGED <<sandboxes, timers, clock>>
    /\ UNCHANGED <<dvars, avars, pvars, gvars, svars>>

\* the rest of cloneRepository: `rm -rf` of the target, unchecked, then
\* `git clone`, whose nonzero exit code throws 'Failed to clone repository.';
\* without git in the environment the exit code is nonzero
CloneRepository(r) ==
    /\ requests[r].pc = "cloning"
    /\ \E env \in {environments[requests[r].sandbox]}, cloned \in BOOLEAN :
        IF ~env.alive
        THEN /\ cloned
             /\ requests' = [requests EXCEPT ![r] = Answered(@, 500, "sandbox not found")]
             /\ UNCHANGED environments
        ELSE /\ environments' =
                    [Used(environments, requests[r].sandbox, <<RemoveCommand, CloneCommand>>)
                        EXCEPT ![requests[r].sandbox].workingCopy =
                            IF cloned /\ env.hasGit THEN "cloned" ELSE "none"]
             /\ requests' = [requests EXCEPT ![r] =
                                IF cloned /\ env.hasGit THEN [@ EXCEPT !.pc = "working"]
                                ELSE Answered(@, 500, "Failed to clone repository.")]
    /\ UNCHANGED <<sandboxes, timers, gitInstalled, clock>>
    /\ UNCHANGED <<dvars, avars, pvars, gvars, svars>>

\* The rest of the route in the sandbox, from the search for the relevant
\* files to the end of the response.
WorkInSandbox(r) ==
    /\ requests[r].pc = "working"
    /\ IF environments[requests[r].sandbox].alive
       THEN /\ requests' = [requests EXCEPT ![r] = [@ EXCEPT !.pc = "ended", !.status = 200]]
            /\ environments' = [Used(environments, requests[r].sandbox, <<>>)
                                    EXCEPT ![requests[r].sandbox].workingCopy = "edited"]
       ELSE /\ requests' = [requests EXCEPT ![r] = Answered(@, 500, "sandbox not found")]
            /\ UNCHANGED environments
    /\ UNCHANGED <<sandboxes, timers, gitInstalled, clock>>
    /\ UNCHANGED <<dvars, avars, pvars, gvars, svars>>

\* A cleanup timer fires when its time has come: cleanup(projectId) takes the
\* sandbox now stored under the id and, when there is one, calls kill() on it
\* and awaits the call.
CleanupTimer(project) ==
    /\ \E i \in DOMAIN timers[project] :
        /\ timers[project][i] <= clock
        /\ timers' = [timers EXCEPT ![project] = Remove(@, i)]
    /\ environments' = IF sandboxes[project] # 0
                       THEN [environments EXCEPT ![sandboxes[project]].killing = TRUE]
                       ELSE environments
    /\ UNCHANGED <<requests, sandboxes, gitInstalled, clock>>
    /\ UNCHANGED <<dvars, avars, pvars, gvars, svars>>

\* The hosting side carries out a kill that is awaited: the environment is gone.
EnvironmentKilled(h) ==
    /\ environments[h].killing
    /\ environments[h].alive
    /\ environments' = [environments EXCEPT ![h].alive = FALSE]
    /\ UNCHANGED <<requests, sandboxes, timers, gitInstalled, clock>>
    /\ UNCHANGED <<dvars, avars, pvars, gvars, svars>>

\* kill() is through.  When it resolved, the environment is gone and cleanup
\* deletes the entry of the project id, whatever sandbox it holds by now; when
\* it rejected, the catch logs the error and the entry stays.
KillReturned(h) ==
    /\ environments[h].killing
    /\ \E resolved \in BOOLEAN :
        /\ resolved => ~environments[h].alive
        /\ sandboxes' = IF resolved THEN [sandboxes EXCEPT ![environments[h].project] = 0]
                        ELSE sandboxes
    /\ environments' = [environments EXCEPT ![h].killing = FALSE]
    /\ UNCHANGED <<requests, timers, gitInstalled, clock>>
    /\ UNCHANGED <<dvars, avars, pvars, gvars, svars>>

\* Time passes to the next instant, once every timer that is due has fired.
\* Time is measured while a timer is pending.
Tick ==
    /\ \E project \in ProjectIds : timers[project] # <<>>
    /\ \A project \in ProjectIds : \A i \in DOMAIN timers[project] :
          timers[project][i] > clock
    /\ \E later \in Instants :
        /\ later > clock
        /\ \A other \in Instants : other > clock => later <= other
        /\ clock' = later
    /\ UNCHANGED <<requests, sandboxes, environments, timers, gitInstalled>>
    /\ UNCHANGED <<dvars, avars, pvars, gvars, svars>>

RouteNext ==
    \/ \E r \in Requests : ValidateBody(r)
    \/ \E r \in Requests : GitHubSetup(r)
    \/ \E r \in Requests : GetSandbox(r)
    \/ \E r \in Requests : SandboxCreated(r)
    \/ \E r \in Requests : EnsureGitInstalled(r)
    \/ \E r \in Requests : GitVersion(r)
    \/ \E r \in Requests : InstallGit(r)
    \/ \E r \in Requests : CloneRepository(r)
    \/ \E r \in Requests : WorkInSandbox(r)
    \/ \E project \in ProjectIds : CleanupTimer(project)
    \/ \E h \in DOMAIN environments : EnvironmentKilled(h)
    \/ \E h \in DOMAIN environments : KillReturned(h)
    \/ Tick

SpecRoute == RouteInit /\ [][RouteNext]_vars

(***************************************************************************)
(* Claims about the publish step                                           *)
(***************************************************************************)
\* the publish markers written to the response so far
PublishMarkers == SelectSeq(resLog, IsPublishMarker)

\* the messages an error raised in the publish step can carry
PublishErrors ==
    {GitSequence[i].failure : i \in {j \in DOMAIN GitSequence : GitSequence[j].checked}}
        \cup {CommandRejected, PushFailedQuotingUrl, "repos.get rejected",
              "pulls.create rejected"}

\* C11: A failure raised inside the publish step (branch creation, staging,
\* commit, push, pull-request creation) is caught at the boundary of the publish
\* step: the response carries the failure marker __PR_FAILED__ with the message
\* of the error and no success marker __PR_CREATED__, and the error is not the
\* one that leaves the handler.
C11_PublishFailureIsCaught ==
    publishError # "" =>
        /\ publishError \in PublishErrors
        /\ PublishMarkers = <<PrFailed(publishError)>>
        /\ thrown \notin PublishErrors
        /\ phase \in {"fileTree", "done", "raised"}
        /\ (phase = "raised" => thrown = "getFileTree")

C11_Witness ==
    /\ publishError = "Failed to push: stderr"
    /\ phase = "done"
    /\ resEnded

\* C12: A failure of the publish step leaves the files of the working copy
\* exactly as the file operations and shell commands left them: the step that
\* fails and the handling of the failure change no file, and after the failure
\* the only command run in the sandbox is the listing of the file tree.
C12_PublishFailureKeepsFiles ==
    /\ [][(publishError' # "") => fs' = fs]_vars
    /\ [][(publishError # "") => cmdLog' \in {cmdLog, Append(cmdLog, "find")}]_vars
    /\ [](publishError # "" => writes = <<>>)

C12_Witness ==
    /\ publishError = "Failed to commit: stderr"
    /\ phase = "done"
    /\ \E f \in DOMAIN fs : fs[f].exists /\ fs[f] = fsBefore[f]

\* the commands of the git sequence
GitCommands == {GitSequence[i].cmd : i \in DOMAIN GitSequence}

\* C13: Every step of the git sequence (config user.email, config user.name,
\* checkout -b, add, commit, rev-parse, push) has its exit code tested: no step
\* that exited with a code other than 0 is let pass, so that no later step runs
\* after it.
C13_EveryGitExitCodeIsTested == ignoredExit \notin GitCommands

\* the first n characters of a text
FirstChars(text, n) == SubSeq(text, 1, Min(n, Len(text)))

\* C14 as stated: For every request text the pushed branch is
\* ai-bot/<timestamp>-<slug>, the slug being the first 30 characters of the
\* request, lower-cased, with every maximal run of non-alphanumeric characters
\* collapsed to one '-'.
C14_SlugOfFirstThirtyCharacters ==
    pushed # <<>> =>
        pushed = BranchPrefix \o timestamp \o <<"-">>
                    \o CollapseNonAlnum(toLowerCaseText(FirstChars(userRequest, 30)))

\* C14, amended: For every request text the pushed branch is
\* ai-bot/<timestamp>-<slug>, the slug being the first 30 characters of what is
\* left of the whole request once it is lower-cased and every maximal run of
\* non-alphanumeric characters is collapsed to one '-'.
C14_SlugIsCutAfterCollapsing ==
    pushed # <<>> =>
        /\ timestamp \in Timestamps
        /\ pushed = BranchPrefix \o timestamp \o <<"-">>
                       \o FirstChars(CollapseNonAlnum(toLowerCaseText(userRequest)), 30)

C14_Witness ==
    /\ userRequest = CommaRequest
    /\ pushed = BranchPrefix \o timestamp \o <<"-">> \o
        <<"a","d","d","-","a","-","s","u","b","t","r","a","c","t","-","f","u",
      "n","c","t","i","o","n","-","t","o","-","m","a","t">>

\* the example request went through: every step of the publish step succeeded
ExamplePublished ==
    /\ repoUrl = HttpsUrl
    /\ userRequest = SubtractRequest
    /\ PublishMarkers = <<PrCreated>>

\* the pull request opened for the branch with this slug: from the just pushed
\* branch of the user's fork to the default branch of acme/widget
ExamplePullRequest(slug) ==
    LET branch == BranchPrefix \o timestamp \o <<"-">> \o slug
    IN  /\ pushed = branch
        /\ apiCalls # <<>>
        /\ apiCalls[Len(apiCalls)] =
              PullsCreate(Acme, Widget, forkOwner \o <<":">> \o branch,
                          hosting[<<Acme, Widget>>].default_branch)

\* C15 as stated: For the request {repoUrl: https://github.com/acme/widget,
\* userRequest: "add a subtract function to math.ts"} with every external step
\* succeeding, the pushed branch is
\* ai-bot/<timestamp>-add-a-subtract-function-to-math-ts, and the pull request
\* has head <user>:<that branch> and as base the default branch of acme/widget.
C15_ExampleBranchKeepsWholeRequest ==
    ExamplePublished =>
        ExamplePullRequest(
            <<"a","d","d","-","a","-","s","u","b","t","r","a","c","t","-","f","u",
              "n","c","t","i","o","n","-","t","o","-","m","a","t","h","-","t","s">>)

\* C15, amended: For that request the pushed branch is
\* ai-bot/<timestamp>-add-a-subtract-function-to-mat (the slug stops after 30
\* characters), and the pull request has head <user>:<that branch> and as base
\* the default branch of acme/widget.
C15_ExampleBranchIsCutToThirty ==
    ExamplePublished =>
        ExamplePullRequest(
            <<"a","d","d","-","a","-","s","u","b","t","r","a","c","t","-","f","u",
              "n","c","t","i","o","n","-","t","o","-","m","a","t">>)

C15_Witness ==
    /\ ExamplePublished
    /\ forkOwner = Dev
    /\ hosting[<<Acme, Widget>>].default_branch = Develop
    /\ phase = "done"

(***************************************************************************)
(* Claims about GitHubHelper                                               *)
(***************************************************************************)
\* this step starts a fork acquisition
AcquisitionStarts == waiting = NoFork /\ (acquired' # acquired \/ waiting' # waiting)

\* the user owns a fork of acme/widget, under whatever name
OwnsFork ==
    \E k \in DOMAIN hosting :
        k[1] = Dev /\ hosting[k].fork /\ hosting[k].parent = FullName(Acme, Widget)

\* the user's repository of the upstream's name is a fork of acme/widget
OwnsForkOfSameName == hosting[<<Dev, Widget>>] = ReadyFork

\* this acquisition is over with this step, called repos.createFork neither
\* before nor in it, and returns, if it returns, the clone URL and the owner of
\* the fork the user has
ReturnsExistingFork ==
    /\ waiting' = NoFork
    /\ CreateFork(Acme, Widget) \notin Range(apiCalls')
    /\ acquired' \in {Append(acquired, Acquired(CloneUrl(Dev, Widget), Dev, FALSE)),
                       Append(acquired, AcquireFailed("users.getAuthenticated rejected", FALSE)),
                       Append(acquired, AcquireFailed("repos.get rejected", FALSE))}

Lookups == SubSeq(apiReplies, Len(apiReplies) - attempts + 1, Len(apiReplies))

LastAcquired == acquired[Len(acquired)]

\* C17: After a fork is created, waitForFork looks the fork up at most 10
\* times, waits 2 seconds after every lookup that failed, returns as soon as
\* one lookup succeeds, and fails with the error that the fork is not ready
\* ('Fork creation timed out') once all 10 lookups have failed; it always
\* terminates.
C17_WaitForForkIsBounded ==
    /\ [](~pullCall.called =>
            /\ attempts \in 0..10
            /\ attempts <= Len(apiReplies)
            /\ \A i \in 1..(attempts - 1) : Lookups[i] = "rejected"
            /\ \A i \in 1..attempts :
                  apiCalls[Len(apiCalls) - attempts + i].api = "repos.get"
            /\ (waiting # NoFork =>
                  /\ \A i \in 1..attempts : Lookups[i] = "rejected"
                  /\ slept = 2000 * attempts)
            /\ (waiting = NoFork /\ acquired # <<>> /\ LastAcquired.forked =>
                  \/ /\ LastAcquired.error = "repos.createFork rejected"
                     /\ attempts = 0
                  \/ /\ LastAcquired.error = "Fork creation timed out"
                     /\ attempts = 10
                     /\ Lookups[10] = "rejected"
                     /\ slept = 2000 * 10
                  \/ /\ LastAcquired.error = ""
                     /\ attempts >= 1
                     /\ Lookups[attempts] = "resolved"
                     /\ slept = 2000 * (attempts - 1)))
    /\ ((waiting # NoFork) ~> (waiting = NoFork))

C17_Witness ==
    /\ waiting = NoFork
    /\ acquired # <<>>
    /\ LastAcquired.error = "Fork creation timed out"
    /\ attempts = 10
    /\ ~pullCall.called

\* the calls of one API in the log of the running method
CallsOf(api) == {i \in DOMAIN apiCalls : apiCalls[i].api = api}

\* a base branch was given to createPullRequest (an empty name is none)
BaseBranchGiven == pullCall.baseBranch \notin {NotPassed, <<>>}

\* C18: createPullRequest always opens the pull request on the original
\* repository (owner = originalOwner, repo = originalRepo) with head =
\* forkOwner:branchName and with the given baseBranch as base, and it asks for
\* the default branch of the upstream, which is then the base, if and only if
\* no baseBranch was given.
C18_PullRequestGoesUpstream ==
    pullCall.called =>
        /\ (CallsOf("repos.get") # {}) <=> ~BaseBranchGiven
        /\ \A i \in CallsOf("repos.get") : apiCalls[i] = ReposGet(Acme, Widget)
        /\ \A i \in CallsOf("pulls.create") :
              apiCalls[i] = PullsCreate(Acme, Widget, Dev \o <<":">> \o pullCall.branch,
                                        IF BaseBranchGiven THEN pullCall.baseBranch
                                        ELSE hosting[<<Acme, Widget>>].default_branch)
        /\ (pullCall.error = "" => Cardinality(CallsOf("pulls.create")) = 1)
        /\ CallsOf("repos.createFork") = {}

C18_Witness ==
    /\ pullCall.called
    /\ pullCall.baseBranch = Develop
    /\ pullCall.error = ""
    /\ hosting[<<Acme, Widget>>].default_branch = Main
    /\ CallsOf("pulls.create") # {}

(***************************************************************************)
(* Claims about the chat route and SandboxManager                          *)
(***************************************************************************)
\* the body of the request lacks the repository URL or the request text
MissingInput(r) ==
    \/ requests[r].body.repoUrl \in {NotPassed, <<>>}
    \/ requests[r].body.userRequest \in {NotPassed, <<>>}

\* The route from the arrival of the requests to the sandbox of each: the part
\* of the handler that comes before any work in the sandbox.
AdmissionNext ==
    \/ \E r \in Requests : ValidateBody(r)
    \/ \E r \in Requests : GitHubSetup(r)
    \/ \E r \in Requests : GetSandbox(r)
    \/ \E r \in Requests : SandboxCreated(r)

SpecAdmission == RouteInit /\ [][AdmissionNext]_vars

\* C19: A chat request with a missing repoUrl or a missing userRequest is
\* answered with a client error (400) before any side effect: the request makes
\* no call to the hosting API and creates no sandbox, and the step that answers
\* it leaves the registry of SandboxManager as it is.
C19_MissingInputIsRejectedFirst ==
    /\ [](\A r \in Requests :
            MissingInput(r) =>
                /\ requests[r].pc \in {"received", "answered"}
                /\ (requests[r].pc = "answered" => requests[r].status = 400)
                /\ ~requests[r].calledApi
                /\ requests[r].sandbox = 0)
    /\ [][\A r \in Requests :
            (MissingInput(r) /\ requests'[r] # requests[r]) =>
                /\ requests'[r].status = 400
                /\ UNCHANGED <<sandboxes, environments, timers, apiCalls, hosting>>]_vars

C19_Witness ==
    \E r \in Requests :
        /\ requests[r].body.userRequest = NotPassed
        /\ requests[r].pc = "answered"
        /\ requests[r].error = "User request is required"
        /\ \E other \in Requests : requests[other].sandbox # 0

\* the environments alive that were created for a project id
AliveFor(project) ==
    {h \in DOMAIN environments : environments[h].project = project /\ environments[h].alive}

\* C20: There is exactly one workspace per project id: however the chat
\* requests that carry the same project id interleave, at most one remote
\* environment created for that id is alive at a time, and the requests that
\* hold an environment alive for the id hold the same one.
C20_OneWorkspacePerProject ==
    /\ \A project \in ProjectIds : Cardinality(AliveFor(project)) <= 1
    /\ \A r1, r2 \in Requests :
          (/\ requests[r1].projectId = requests[r2].projectId
           /\ requests[r1].sandbox \in AliveFor(requests[r1].projectId)
           /\ requests[r2].sandbox \in AliveFor(requests[r2].projectId))
          => requests[r1].sandbox = requests[r2].sandbox

\* the keywords the extractor returns for the request text of the run
Keywords == extractKeywords(userPrompt)

\* C25: For every input text, extractKeywords returns tokens that contain no
\* stop-word, no token shorter than 3 characters, and no duplicate, whatever
\* duplication, casing or punctuation the input has.
C25_KeywordsAreFilteredAndDistinct ==
    node = "select_tool" => \A keywords \in {Keywords} :
        /\ \A i \in DOMAIN keywords :
              /\ Len(keywords[i]) >= 3
              /\ \A s \in DOMAIN stopWords : keywords[i] # stopWords[s]
        /\ \A i, j \in DOMAIN keywords : keywords[i] = keywords[j] => i = j

\* "Add, add" has passed analyzeTask: one word twice, in two casings, with
\* punctuation between, and one keyword comes out
C25_Witness ==
    /\ node = "select_tool"
    /\ userPrompt = <<"A","d","d",","," ","a","d","d">>
    /\ Keywords = << <<"a","d","d">> >>

SearchTools == {"grep", "glob", "regex"}
ExcludedDirectories == {"node_modules", ".git", "dist"}

\* C29: All three search tools exclude the same directories: the command
\* built for grep, for glob and for regex each excludes node_modules, .git and
\* dist, and the returned file list never contains a path that includes
\* node_modules.
C29_SearchToolsExcludeSameDirectories ==
    /\ (node = "END" /\ selectedTool \in SearchTools) =>
          ExcludedDirectories \subseteq SearchCommand(selectedTool, searchQuery).excluded
    /\ \A i \in DOMAIN foundfiles : ~includes(foundfiles[i], "node_modules")

\* C21: A workspace is destroyed by expiry only after 30 minutes of
\* inactivity: as long as requests for its project id keep using it at
\* intervals shorter than 30 minutes, the expiry timer does not kill the
\* environment or remove it from the registry.
C21_ExpiryOnlyAfterInactivity ==
    [][\A h \in DOMAIN environments :
          (environments[h].alive /\ ~environments'[h].alive) =>
              clock - environments[h].lastUsed >= TIMEOUT]_vars

\* no other request carries the project id of request r
OwnProject(r) ==
    \A other \in Requests \ {r} :
        projectIdOf(requests[other].body, other) # projectIdOf(requests[r].body, r)

\* what a request that runs alone in the process has run in its environment
\* when the clone is through: the check, the install when the check fails, the
\* removal of the target and the clone
AloneCommands ==
    { <<GitVersionCommand, RemoveCommand, CloneCommand>>,
      <<GitVersionCommand, InstallCommand, RemoveCommand, CloneCommand>> }

\* C22: Chat requests for different project ids run concurrently without
\* interference: for two requests with distinct ids, every interleaving gives
\* each request the same registry entry, the same sequence of commands in its
\* own environment and the same outcome as when it runs alone.
C22_DistinctProjectsDoNotInterfere ==
    \A r \in Requests :
        (OwnProject(r) /\ requests[r].pc \in {"working", "ended"}) =>
            /\ environments[requests[r].sandbox].project = requests[r].projectId
            /\ environments[requests[r].sandbox].commands \in AloneCommands

\* C23: Git availability is detected (and git installed when absent) once per
\* remote environment instance: in every environment, the first
\* cloneRepository is preceded by a git check or install run in that same
\* environment, and later clones in that environment skip the check.
C23_GitCheckedOncePerEnvironment ==
    \A h \in DOMAIN environments : \A cmds \in {environments[h].commands} :
        /\ \A i \in DOMAIN cmds :
              cmds[i] = CloneCommand =>
                  \E j \in 1..(i - 1) : cmds[j] \in {GitVersionCommand, InstallCommand}
        /\ Cardinality({i \in DOMAIN cmds : cmds[i] = GitVersionCommand}) <= 1

MarkerTypes == {"__PR_CREATED__", "__PR_FAILED__"}

\* C24: The __PR_CREATED__ / __PR_FAILED__ marker of a request is written to
\* the response after every text chunk of the generation stream has been
\* written and before the response is ended; no write to the response ever
\* happens after res.end().
C24_MarkerAfterChunksBeforeEnd ==
    /\ [][resLog' # resLog => ~resEnded]_vars
    /\ [][\A i \in DOMAIN resLog' :
            (resLog'[i].type \in MarkerTypes /\ i \notin DOMAIN resLog) =>
                /\ chunksLeft = 0
                /\ ~resEnded']_vars
    /\ [](\A i, j \in DOMAIN resLog :
            (resLog[i].type \in MarkerTypes /\ resLog[j].type = "chunk") => j < i)

\* a response that relayed a chunk, then got the marker, then was ended
C24_Witness ==
    /\ resEnded
    /\ Len(resLog) = 2
    /\ resLog[1] = Chunk
    /\ resLog[2].type \in MarkerTypes

\* the texts of the model that contain the access token
HoldsToken(text) == text \in {StderrQuotingUrl, PushFailedQuotingUrl}

\* C30: The access token embedded in the push URL never reaches a log line or
\* the response stream: the token-bearing URL flows only into the push
\* command, and neither the success payload, the __PR_FAILED__ payload nor any
\* logged text contains it.  (console.error logs the error of the publish
\* step, publishError; the payloads are in resLog.)
C30_TokenNeverLoggedNorStreamed ==
    /\ ~HoldsToken(publishError)
    /\ \A i \in DOMAIN resLog : ~HoldsToken(resLog[i].error)

\* C26: Every file operation is applied with a path that is an absolute path
\* under the workspace root (repoPath): for every path string the generation
\* can contain (relative, absolute inside the root, absolute outside the root,
\* sharing only a string prefix with the root), the path handed to
\* executeFileOperation denotes a location inside repoPath.
C26_OperationsStayUnderRoot ==
    operation # NoOperation => InsideRoot(operation.path)

\* some readFile of the path returned
WasRead(path) == \E i \in DOMAIN reads : reads[i] /\ candidateFiles[i] = path

\* C27: In selectFilesToModify, a read failure for one candidate file excludes
\* only that file from the prompt contents: the other candidates are still
\* read, the model is still called, and the function does not raise because of
\* the read failure.
C27_ReadFailureExcludesOnlyThatFile ==
    /\ \A path \in CandidatePaths : path \in Range(fileContents) <=> WasRead(path)
    /\ selectPc # "reading" =>
          /\ Len(reads) = Len(candidateFiles)
          /\ llmPrompt = fileContents
    /\ selectPc = "raised" => llmText = Rejected

\* the read of helper.py failed, main.py was read and sent to the model, and
\* the function returned
C27_Witness ==
    /\ selectPc = "returned"
    /\ candidateFiles = <<"helper.py", "main.py">>
    /\ reads = <<FALSE, TRUE>>
    /\ llmPrompt = <<"main.py">>

\* a line that is not empty and begins with the path of the working copy
IsLineUnderRoot(line) == Len(line) > 0 /\ startsWith(line, repoPath)

\* the lines of a text, each trimmed
TrimmedLines(text) ==
    LET lines == split(text, LineBreak)
    IN  [i \in DOMAIN lines |-> trimText(lines[i])]

\* C28: selectFilesToModify returns exactly the lines of the model response
\* that are non-empty after trimming and begin with the workspace-root path
\* prefix, in response order; a response with no such line yields an empty
\* list.
C28_SelectionIsLinesUnderRoot ==
    selectPc = "returned" =>
        selectedFiles = SelectSeq(TrimmedLines(llmText), IsLineUnderRoot)

\* C33: Whenever execute_search runs, selectedTool is one of grep, glob, regex
\* and a search command is defined: this holds for every model response that
\* parses as JSON, including objects whose tool field is missing or is some
\* other string.
C33_SearchRunsWithKnownTool ==
    node \in {"execute_search", "END", "raised"} =>
        /\ selectedTool \in SearchTools
        /\ SearchCommand(selectedTool, searchQuery).program # Undefined

\* C34: An expiry timer only destroys the workspace it was scheduled for: when
\* workspaces are created one after another (or by overlapping creates) for the
\* same project id, no environment is killed before its own 30 minutes, counted
\* from its own creation, have passed.
C34_TimerKillsOnlyItsOwnWorkspace ==
    [][\A h \in DOMAIN environments :
          (environments[h].alive /\ ~environments'[h].alive) =>
              clock >= environments[h].expires]_vars

\* C35: The registry never hands out a dead environment: the sandbox a request
\* is given by get is alive at that moment, also while a cleanup awaits kill()
\* and after a kill() that rejected.
C35_RegistryHandsOutLiveEnvironments ==
    [][\A r \in Requests :
          (requests[r].pc = "sandbox" /\ requests'[r].pc = "clone") =>
              environments[requests'[r].sandbox].alive]_vars

\* C38: cloneRepository leaves the working copy as it was when it fails: when
\* the clone of a request exits nonzero in a live environment, the working copy
\* the environment held before the call, edits included, is still there.
C38_FailedCloneKeepsWorkingCopy ==
    [][\A r \in Requests :
          (/\ requests[r].pc = "cloning"
           /\ requests'[r].error = "Failed to clone repository.") =>
              environments'[requests[r].sandbox].workingCopy =
                  environments[requests[r].sandbox].workingCopy]_vars

\* C36: When the generation stream finishes without a structured object, the
\* completion handler changes nothing: no file operation is applied, no shell
\* command runs, no git or hosting call is made, and neither completion marker
\* is written to the response.
C36_NoObjectNoEffect ==
    generation = "none" =>
        /\ opIndex = 0 /\ operation = NoOperation
        /\ writes = <<>> /\ fs = fsBefore
        /\ shellIndex = 0 /\ gitStep = 0 /\ cmdLog = <<>>
        /\ apiCalls = <<>>
        /\ PublishMarkers = <<>>
        /\ thrown = ""

\* a request whose stream finished without an object, answered to the end
C36_Witness ==
    /\ generation = "none"
    /\ resEnded
    /\ resLog # <<>>

\* C37: A generated shell command that exits nonzero does not stop the request:
\* the loop goes on to the remaining shell commands, in order, nothing is
\* raised, and the publish steps are still open to the request afterwards.
C37_NonzeroShellExitGoesOn ==
    [][(ignoredExit = "" /\ ignoredExit' = "shell command") =>
          /\ phase' = "shell"
          /\ shellIndex' = shellIndex + 1
          /\ thrown' = thrown
          /\ resLog' = resLog]_vars

\* the first shell command exited nonzero, the second ran after it and the
\* git commands of the publish step have run
C37_Witness ==
    /\ ignoredExit = "shell command"
    /\ shellIndex = 2
    /\ phase = "publish"
    /\ gitStep > 0
    /\ thrown = ""

\* the git commands of the publish step that have run, in the order they ran
PublishCommandsRun ==
    LET IsPublishCommand(cmd) == \E i \in DOMAIN GitSequence : GitSequence[i].cmd = cmd
    IN  SelectSeq(cmdLog, IsPublishCommand)

\* the commands whose exit code the publish step tests: branch, commit, push
TestedCommands == {GitSequence[i].cmd : i \in {j \in DOMAIN GitSequence : GitSequence[j].checked}}

\* C32: A pull request is created, and a __PR_CREATED__ marker written, only
\* after the publish steps ran in the order configure author, create branch,
\* stage, commit, resolve commit hash, push, and only if branch creation,
\* commit and push each returned exit code 0; the marker is written only after
\* createPullRequest returned.
C32_PullRequestOnlyAfterPublishSteps ==
    /\ [][apiCalls' # apiCalls =>
            /\ PublishCommandsRun = [i \in DOMAIN GitSequence |-> GitSequence[i].cmd]
            /\ ignoredExit \notin TestedCommands
            /\ pushed # <<>>]_vars
    /\ [][PublishMarkers' # PublishMarkers /\ PrCreated \in Range(PublishMarkers') =>
            /\ PublishCommandsRun = [i \in DOMAIN GitSequence |-> GitSequence[i].cmd]
            /\ ignoredExit \notin TestedCommands
            /\ apiCalls' # apiCalls
            /\ apiCalls'[Len(apiCalls')].api = "pulls.create"
            /\ apiReplies'[Len(apiReplies')] = "resolved"]_vars

\* the pull request was created after the whole git sequence, and the marker
\* is in the response
C32_Witness ==
    /\ PrCreated \in Range(PublishMarkers)
    /\ Len(PublishCommandsRun) = Len(GitSequence)
    /\ apiCalls # <<>>

\* the shell commands of the generation that have run
ShellCommandsRun ==
    LET IsShellCommand(cmd) == cmd = "shell command"
    IN  SelectSeq(cmdLog, IsShellCommand)

\* C31: Within one request the phases never overlap and keep their order: file
\* operations are applied one at a time in the order of
\* generation.fileOperations, each exactly once; the first shell command starts
\* only after the last file operation returned; the first publish git step
\* starts only after the last shell command returned; and none of them starts
\* before the generation stream has completed.
C31_PhasesInOrder ==
    /\ [][(operation' # operation /\ operation' # NoOperation) =>
            /\ operation = NoOperation
            /\ opIndex' \in {opIndex, opIndex + 1}
            /\ (opIndex' = opIndex) = (phase' = "raised")
            /\ chunksLeft = 0 /\ generation = "object"
            /\ cmdLog = <<>>]_vars
    /\ [][opIndex' # opIndex => (operation' # NoOperation /\ operation = NoOperation)]_vars
    /\ [][ShellCommandsRun' # ShellCommandsRun =>
            /\ Len(ShellCommandsRun') = Len(ShellCommandsRun) + 1
            /\ operation = NoOperation
            /\ opIndex' = opIndex
            /\ chunksLeft = 0 /\ generation = "object"
            /\ PublishCommandsRun = <<>> /\ gitStep = 0]_vars
    /\ [][PublishCommandsRun' # PublishCommandsRun =>
            /\ Len(PublishCommandsRun') = Len(PublishCommandsRun) + 1
            /\ operation = NoOperation
            /\ opIndex' = opIndex
            /\ ShellCommandsRun' = ShellCommandsRun
            /\ chunksLeft = 0 /\ generation = "object"]_vars
    /\ [](\A i, j \in DOMAIN cmdLog :
            (cmdLog[i] = "shell command" /\ cmdLog[j] \in Range(PublishCommandsRun)) => i < j)

\* two file operations, then two shell commands, then git steps of the publish
\* step have run
C31_Witness ==
    /\ opIndex >= 2
    /\ Len(ShellCommandsRun) = 2
    /\ Len(PublishCommandsRun) >= 2
====
